---- MODULE Spec2Model ----
(***************************************************************************)
(* Frame Notes: the App controller (src/App.tsx) and the note Editor       *)
(* (src/unnamed/part_002, the components/Editor the App imports) as one    *)
(* state machine driven by UI events and timers.                           *)
(*                                                                         *)
(* React is modelled at the granularity of one event: a handler runs, the  *)
(* component re-renders and its effects (cleanup, then body) run, all in   *)
(* one step.  A timer is the number of milliseconds left until it fires;   *)
(* time advances only up to the next deadline, so a due timer fires before *)
(* the clock moves on.  The hardware back button exists on the native      *)
(* platform only; the web platform's behaviours are the ones in which it   *)
(* is never pressed.                                                       *)
(*                                                                         *)
(* The stores are local storage (frame_notes_data, frame_notes_theme) and, *)
(* on the native platform, the device file frame_notes_db.json.  A stored  *)
(* document is JSON text, modelled as the ordered members of its objects.  *)
(* Calls of the file system are asynchronous: in Spec, SpecFine and        *)
(* SpecBlocks they are served at once; in SpecStore a read and the writes  *)
(* are in flight until served or rejected, in any order.  SpecHome is the  *)
(* list view with its search field and hidden-notes switch.                *)
(*                                                                         *)
(* The DrawingCanvas of a media block (SpecDraw) keeps its paths and the   *)
(* stroke being drawn until Save hands the paths to the block or Cancel    *)
(* drops them.  A canvas is one line of pixels: a point is its x, a stroke *)
(* paints the pixels within half its line width.  SpecRender starts from   *)
(* stored drawings of up to MaxPaths + 1 paths and renders them.           *)
(*                                                                         *)
(* In SpecBlocks a drag holds the pointer from its start to its end; in    *)
(* SpecOrder the editor's block handlers are called in any order.          *)
(* SpecPress is the list view with the press on a note card (NoteCard of   *)
(* src/components/Home.tsx): press, long-press timeout, release, click.    *)
(***************************************************************************)
EXTENDS Integers, Sequences, FiniteSets, TLC

----------------------------------------------------------------------------
(* Program constants *)

DEBOUNCE_MS == 800
brushSize == 3
NEON_COLORS == <<"#22d3ee", "#e879f9">>
BLOCK_UNDO_MS == 4000
NOTE_UNDO_MS == 5000

(* Bounds of the model *)

StartTime == 1000
MaxTime == 7400
MaxOps == 4
MaxBlocks == 2
MaxPaths == 2
MaxPoints == 3
CanvasWidth == 20
MaxBlockTimers == 2

Step == DEBOUNCE_MS \div 2
LongStep == NOTE_UNDO_MS \div 2

Titles == {"", "Trip"}
Contents == {"", "Paris was great"}
BlockTypes == {"text", "image"}

----------------------------------------------------------------------------
(* Optional values: null is the empty sequence, a value v is <<v>> *)

None == <<>>
Some(v) == <<v>>
NoTimer == -1

(* no block is in drawing mode *)
NoCanvas == <<>>

(* undefined, as an element of an array *)
Undefined == [undefined |-> TRUE]

Min(a, b) == IF a <= b THEN a ELSE b

----------------------------------------------------------------------------
(* Data *)

Block(id, type, content) ==
    [id |-> id, type |-> type, content |-> content, drawings |-> <<>>]

Note(id, title, createdAt, updatedAt, blocks, isPinned, isHidden, theme) ==
    [id |-> id, title |-> title, createdAt |-> createdAt,
     updatedAt |-> updatedAt, blocks |-> blocks, isPinned |-> isPinned,
     isHidden |-> isHidden, theme |-> theme]

Ids(s) == {s[i].id : i \in 1..Len(s)}

IndexOfId(s, id) ==
    IF id \in Ids(s) THEN CHOOSE i \in 1..Len(s) :
                              s[i].id = id /\ \A j \in 1..(i-1) : s[j].id # id
    ELSE 0

FilterOutId(s, id) == SelectSeq(s, LAMBDA e : e.id # id)

(* Array.prototype.splice(index, 0, item) on a copy; index is 0-based and
   an index past the end appends *)
SpliceInsert(s, index, item) ==
    LET k == Min(index, Len(s))
    IN SubSeq(s, 1, k) \o <<item>> \o SubSeq(s, k + 1, Len(s))

(* a splice that removes nothing *)
SpliceRemoveNothing(s, index) == s

(* Array.prototype.splice(index, 1) on a copy; an index past the end removes
   nothing *)
SpliceRemove(s, index) ==
    IF index < Len(s) THEN SubSeq(s, 1, index) \o SubSeq(s, index + 2, Len(s)) ELSE s

(* the keys of a Block and of a Note, in the order the code writes them *)
BlockKeys == <<"id", "type", "content", "width", "height", "drawings">>
NoteKeys == <<"id", "title", "createdAt", "updatedAt", "blocks", "isPinned",
              "isHidden", "theme">>

(* an object as JSON text: its members <<key, value>>, in the order of keys,
   a key the object does not have or whose value is undefined left out *)
Members(object, keys) ==
    LET present == SelectSeq(keys, LAMBDA k : k \in DOMAIN object)
    IN [i \in 1..Len(present) |-> <<present[i], object[present[i]]>>]

(* the object a member list is parsed to; of two members with one key the
   later one counts *)
FromMembers(members) ==
    [k \in {members[i][1] : i \in 1..Len(members)} |->
        LET last == CHOOSE i \in 1..Len(members) :
                       /\ members[i][1] = k
                       /\ \A j \in (i + 1)..Len(members) : members[j][1] # k
        IN members[last][2]]

(* a block's values are strings, numbers and arrays of these: written as
   they are *)
BlockToJSON(block) == Members(block, BlockKeys)
BlockFromJSON(members) == FromMembers(members)

(* a note's blocks are an array of objects, its other values are written as
   they are *)
NoteToJSON(note) ==
    Members([k \in DOMAIN note |->
                IF k = "blocks"
                THEN [i \in 1..Len(note.blocks) |-> BlockToJSON(note.blocks[i])]
                ELSE note[k]],
            NoteKeys)

NoteFromJSON(members) ==
    LET object == FromMembers(members)
    IN [k \in DOMAIN object |->
           IF k = "blocks"
           THEN [i \in 1..Len(object.blocks) |-> BlockFromJSON(object.blocks[i])]
           ELSE object[k]]

(* a parse that loses the blocks' drawings *)
JSONparseDropsDrawings(doc) ==
    [i \in 1..Len(doc.text) |->
        LET n == NoteFromJSON(doc.text[i])
        IN [n EXCEPT !.blocks =
               [j \in 1..Len(n.blocks) |->
                   [k \in DOMAIN n.blocks[j] \ {"drawings"} |-> n.blocks[j][k]]]]]

(* JSON.stringify of a note collection: a document of kind "json" whose text
   is the array of the notes' member lists.  Documents of the other kinds:
   "garbled", a text JSON.parse throws on; "empty", the empty string *)
JSONstringify(ns) ==
    [kind |-> "json", text |-> [i \in 1..Len(ns) |-> NoteToJSON(ns[i])]]

(* JSON.parse of a document of kind "json" *)
JSONparse(doc) == [i \in 1..Len(doc.text) |-> NoteFromJSON(doc.text[i])]

Garbled == [kind |-> "garbled", text |-> <<>>]
EmptyText == [kind |-> "empty", text |-> <<>>]

----------------------------------------------------------------------------
(* Notes a previous session may have left in local storage *)

SeedA ==
    Note(1, "Trip", 100, 200,
         <<Block(2, "text", "Paris was great"), Block(3, "image", "img")>>,
         FALSE, FALSE, "dark")

SeedB == Note(4, "", 300, 400, <<Block(5, "text", "")>>, TRUE, FALSE, "dark")

SeedStores == {None, Some(JSONstringify(<<SeedA, SeedB>>))}

(* a note with three blocks, for the reorder handlers *)
SeedC ==
    Note(1, "Trip", 100, 200,
         <<Block(2, "text", "Paris was great"), Block(3, "image", "img"),
           Block(4, "text", "")>>,
         FALSE, FALSE, "dark")

SeedBlockStores == {Some(JSONstringify(<<SeedC>>)), Some(JSONstringify(<<SeedA, SeedB>>))}

FirstFreshId == 6

----------------------------------------------------------------------------
VARIABLES
    (* App state, src/App.tsx *)
    mounted,        \* the App's mount effects have run
    exited,         \* CapacitorApp.exitApp() was called
    view,           \* 'home' | 'edit'
    notes,          \* Note[]
    activeNote,     \* Note | null
    theme,          \* Theme
    deletedNote,    \* Note | null, the note undo slot
    undoTimer,      \* ms left of the note undo timer, or NoTimer
    lsData,         \* localStorage['frame_notes_data'], or null
    lsTheme,        \* localStorage['frame_notes_theme'], or null
    loading,        \* loadData awaits Filesystem.readFile
    fsData,         \* the content of the device file frame_notes_db.json, or null when there is none
    fsWrites,       \* the documents of the Filesystem.writeFile calls in flight
    (* Home state, src/components/Home.tsx; meaningful while view = 'home' *)
    showHidden,     \* showHidden
    searchQuery,    \* searchQuery
    press,          \* the NoteCard under the pointer: isPressing, timerRef, or null when none is
    (* Editor state, src/unnamed/part_002; meaningful while view = 'edit' *)
    edBlocks,       \* blocks
    edTitle,        \* title
    edIsHidden,     \* isHidden
    edIsPinned,     \* isPinned
    deletedBlock,   \* {block, index} | null, the block undo buffer
    blockTimers,    \* the pending block-expiry timeouts: {[id, left]}
    saveTimer,      \* ms left of the pending autosave timeout, or NoTimer
    capNote,        \* the note prop captured by the pending autosave closure
    dragItem,       \* dragItem.current: the tracked index of the dragged block, or null
    dragOverItem,   \* dragOverItem.current
    canvases,       \* the DrawingCanvas of each block in drawing mode, by block id
    (* Environment *)
    now,            \* Date.now()
    nextId,         \* the next value generateId() returns
    opsLeft,        \* number of user events still allowed
    grain,          \* ms the clock advances in one step while an autosave is pending
    native,         \* Capacitor.isNativePlatform()
    io,             \* "prompt": a file call is served before anything else happens;
                    \* "free": file calls are served at any later time, in any order, and may fail
    order,          \* "gesture": while a drag is under way only its own events arrive;
                    \* "any": the editor's handlers are called in any order
    (* History, read by the properties only *)
    obs

homeVars == <<showHidden, searchQuery, press>>
appVars == <<mounted, loading, exited, view, notes, activeNote, theme, deletedNote,
             undoTimer, lsData, fsData, fsWrites, lsTheme, homeVars>>
edVars == <<edBlocks, edTitle, edIsHidden, edIsPinned, deletedBlock,
            blockTimers, saveTimer, capNote, dragItem, dragOverItem, canvases>>
envVars == <<now, nextId, opsLeft, grain, native, io, order>>
vars == <<appVars, edVars, envVars, obs>>

----------------------------------------------------------------------------
(* History record: what the properties need to remember of the past *)

ObsInit ==
    [last |-> "init",        \* the last step taken
     changed |-> FALSE,      \* a tracked change awaits its autosave
     everChanged |-> FALSE,  \* a tracked change was made in this session
     changeAt |-> StartTime, \* when the autosave effect last ran
     run |-> 0,              \* tracked changes in the current run, each < 800 ms after the one before (capped)
     runStart |-> StartTime, \* when the current run's first change was made
     commits |-> 0,          \* onSave calls since the autosave effect last ran
     sessionIds |-> {},      \* ids passed to onSave in this editor session
     saved |-> None,         \* the note last passed to onSave in this session
     unchangedSaves |-> 0,   \* commits of a persisted note equal to the stored one (capped)
     left |-> None,          \* the change that was pending when the editor was left
     del |-> None,           \* the latest block deletion of this session
     ndel |-> None,          \* the latest note deletion
     script |-> "off",       \* progress through the Trip scenario
     drag |-> None,          \* the drag gesture since which no other change was made
     draw |-> NoCanvas,      \* per drawing session: the block list and paths at its opening, the paths its strokes and undos add up to
     boot |-> None]          \* what the stores held when the App was mounted, and what the file read gave

ObsSession ==
    [obs EXCEPT !.changed = FALSE, !.everChanged = FALSE, !.changeAt = now,
                !.run = 0, !.runStart = now, !.commits = 0, !.sessionIds = {}, !.saved = None,
                !.del = None, !.drag = None, !.draw = NoCanvas]

(* a tracked change of the editor; listEdit: it edits the block list *)
ObsChange(o, name, listEdit) ==
    [o EXCEPT !.last = name, !.changed = TRUE, !.everChanged = TRUE,
              !.changeAt = now, !.commits = 0,
              !.run = IF o.everChanged /\ now - o.changeAt < DEBOUNCE_MS
                      THEN Min(o.run + 1, 3) ELSE 1,
              !.runStart = IF o.everChanged /\ now - o.changeAt < DEBOUNCE_MS
                           THEN o.runStart ELSE now,
              !.del = IF listEdit /\ o.del # None
                      THEN Some([o.del[1] EXCEPT !.edited = TRUE])
                      ELSE o.del,
              !.script = "off", !.drag = None]

----------------------------------------------------------------------------
(* Pure parts of the handlers *)

(* generateId(): Math.random and Date.now in base 36; taken as never
   repeating, so the model hands out the next unused number *)
generateId == nextId

(* an updater that never replaces: every commit adds a note *)
UpsertAlwaysPrepends(prev, updatedNote) == <<updatedNote>> \o prev

(* an updater that moves the saved note to the front *)
UpsertMovesToFront(prev, updatedNote) ==
    <<updatedNote>> \o SelectSeq(prev, LAMBDA n : n.id # updatedNote.id)

(* handleSaveNote's updater: replace the note with the same id in place,
   else put the note in front *)
Upsert(prev, updatedNote) ==
    IF updatedNote.id \in Ids(prev)
    THEN [i \in 1..Len(prev) |->
             IF prev[i].id = updatedNote.id THEN updatedNote ELSE prev[i]]
    ELSE <<updatedNote>> \o prev

(* a save effect that leaves local storage alone where there is a file *)
SaveEffectWebOnly(ns) == IF native THEN lsData ELSE Some(JSONstringify(ns))

(* the save effect: localStorage.setItem('frame_notes_data', JSON.stringify(notes)) *)
SaveEffect(ns) == Some(JSONstringify(ns))

(* a callback without the guard *)
AutosaveNeverSkips(note, blocks, title) == FALSE

(* the theme identifiers, the keys of THEMES *)
Themes == {"dark", "pink", "royal"}

(* property names every object literal inherits from Object.prototype *)
InheritedKeys == {"constructor", "toString"}

(* THEMES[savedTheme] is truthy *)
HasTheme(savedTheme) == savedTheme \in Themes \cup InheritedKeys

(* loadData, Load Theme: savedTheme && THEMES[savedTheme] ? setTheme(savedTheme) *)
LoadedTheme(savedTheme, current) ==
    IF savedTheme # None /\ savedTheme[1] # "" /\ HasTheme(savedTheme[1])
    THEN savedTheme[1] ELSE current

(* a string read from a store is truthy: it is there and not empty *)
Truthy(content) == content # None /\ content[1].kind # "empty"

(* a loader that makes up a collection for a text that does not parse *)
LoadedNotesKeepsOnFailure(isNative, file, savedNotes, current) ==
    IF isNative /\ Truthy(file) /\ file[1].kind = "json" THEN JSONparse(file[1])
    ELSE IF Truthy(savedNotes) /\ savedNotes[1].kind = "json" THEN JSONparse(savedNotes[1])
    ELSE IF Truthy(savedNotes) \/ Truthy(file) THEN <<SeedB>>
    ELSE current

(* loadData: on the native platform the file, when the read gave data and
   the data parse; else, on both platforms, the local-storage entry when it
   is there and parses; else the notes stay what they are.  file is what
   Filesystem.readFile gave, null when it rejected *)
LoadedNotes(isNative, file, savedNotes, current) ==
    IF isNative /\ Truthy(file) /\ file[1].kind = "json" THEN JSONparse(file[1])
    ELSE IF Truthy(savedNotes) /\ savedNotes[1].kind = "json" THEN JSONparse(savedNotes[1])
    ELSE current

(* persistData: on the native platform Filesystem.writeFile is called, and
   not awaited by the effect *)
PersistData(ns) ==
    IF ~native THEN UNCHANGED <<fsData, fsWrites>>
    ELSE IF io = "prompt"
         THEN fsData' = Some(JSONstringify(ns)) /\ fsWrites' = fsWrites
         ELSE fsWrites' = Append(fsWrites, JSONstringify(ns)) /\ fsData' = fsData

(* the autosave callback's guard: an empty note that was never persisted *)
AutosaveSkips(note, blocks, title) ==
    Len(blocks) = 0 /\ title = "" /\ note = None

(* a commit that stamps createdAt anew *)
UpdatedNoteFreshCreatedAt(note, blocks, title, isPinned, isHidden, currentTheme, freshId, t) ==
    Note(IF note # None /\ note[1].id # 0 THEN note[1].id ELSE freshId,
         title, t, t, blocks, isPinned, isHidden, currentTheme)

(* the autosave callback's updatedNote; a || b takes b when a is falsy *)
UpdatedNote(note, blocks, title, isPinned, isHidden, currentTheme, freshId, t) ==
    Note(IF note # None /\ note[1].id # 0 THEN note[1].id ELSE freshId,
         title,
         IF note # None /\ note[1].createdAt # 0 THEN note[1].createdAt ELSE t,
         t, blocks, isPinned, isHidden, currentTheme)

(* a throttle: the effect leaves a pending timeout running *)
ScheduleAutosaveKeepsPending(previous) ==
    IF previous # NoTimer THEN previous ELSE DEBOUNCE_MS

(* the autosave effect body: setTimeout(..., 800), after the cleanup has
   cleared the previous timeout *)
ScheduleAutosave(previous) == DEBOUNCE_MS

(* a cleanup that leaves the timeout running *)
CleanupAutosaveKeepsTimer(pending) == pending

(* the autosave effect's cleanup on unmount: clearTimeout(timer) *)
CleanupAutosave(pending) == NoTimer

(* a deletion that leaves the running expiry of the previous one in place *)
ScheduleNoteUndoKeepsRunning(previous) ==
    IF previous # NoTimer THEN previous ELSE NOTE_UNDO_MS

(* handleDeleteNote's timer: clearTimeout(undoTimer) if any, then setTimeout(..., 5000) *)
ScheduleNoteUndo(previous) == NOTE_UNDO_MS

(* the block-expiry callback: curr => curr?.block.id === id ? null : curr *)
ExpireBlock(curr, id) ==
    IF curr # None /\ curr[1].block.id = id THEN None ELSE curr

(* deleteBlock never clears a timeout: every deletion adds one *)
BlockTimersAfterDelete(timers, id) == timers \cup {[id |-> id, left |-> BLOCK_UNDO_MS]}

(* restoreBlock leaves the timeouts alone *)
BlockTimersAfterRestore(timers, id) == timers

(* handleUndoDelete's updater *)
UndoInsert(prev, note) == <<note>> \o prev

(* what the editor would commit now, without id and timestamps *)
Draft == [title |-> edTitle, blocks |-> edBlocks, isPinned |-> edIsPinned,
          isHidden |-> edIsHidden]

DraftOf(n) == [title |-> n.title, blocks |-> n.blocks, isPinned |-> n.isPinned,
               isHidden |-> "isHidden" \in DOMAIN n /\ n.isHidden]

----------------------------------------------------------------------------
(* Mounting and unmounting the Editor *)

(* useState initialisers, note?.isHidden || false for the flags, then the
   autosave effect runs for the first time *)
EditorMount(note) ==
    /\ edBlocks' = IF note # None THEN note[1].blocks ELSE <<>>
    /\ edTitle' = IF note # None THEN note[1].title ELSE ""
    /\ edIsHidden' = (note # None /\ "isHidden" \in DOMAIN note[1] /\ note[1].isHidden)
    /\ edIsPinned' = IF note # None THEN note[1].isPinned ELSE FALSE
    /\ deletedBlock' = None
    /\ blockTimers' = {}
    /\ saveTimer' = ScheduleAutosave(NoTimer)
    /\ capNote' = note
    /\ dragItem' = None /\ dragOverItem' = None
    /\ canvases' = NoCanvas

(* the Editor's state is discarded; the autosave effect's cleanup runs; the
   block-expiry timeouts stay scheduled but can only set the state of a
   component that is gone, so they are dropped *)
EditorUnmount ==
    /\ edBlocks' = <<>>
    /\ edTitle' = ""
    /\ edIsHidden' = FALSE
    /\ edIsPinned' = FALSE
    /\ deletedBlock' = None
    /\ blockTimers' = {}
    /\ saveTimer' = CleanupAutosave(saveTimer)
    /\ capNote' = None
    /\ dragItem' = None /\ dragOverItem' = None
    /\ canvases' = NoCanvas

(* the change that is lost or still to be saved when the editor is left *)
PendingDraft ==
    IF obs.changed /\ ~AutosaveSkips(activeNote, edBlocks, edTitle)
    THEN Some(Draft) ELSE None

(* the deadlines of the pending timers *)
Deadlines ==
    {x \in {saveTimer, undoTimer} : x # NoTimer} \cup {t.left : t \in blockTimers}
        \cup {press[k].left : k \in {j \in DOMAIN press : press[j].left # NoTimer}}

Running == mounted /\ ~loading /\ ~exited

(* an input event: one of a bounded number, and never ahead of a timer that is due *)
InputEvent ==
    /\ Running /\ 0 \notin Deadlines
    /\ opsLeft > 0 /\ opsLeft' = opsLeft - 1

(* a tap or a key stroke: there is none while a drag gesture or a press on a
   card holds the pointer *)
UserEvent == InputEvent /\ (dragItem = None \/ order = "any") /\ press = None

----------------------------------------------------------------------------
(* App: startup *)

(* the state after construction: the useState initialisers of App.tsx *)
ConstructedState(budget, g) ==
    /\ mounted = FALSE /\ loading = FALSE /\ exited = FALSE
    /\ showHidden = FALSE /\ searchQuery = <<>> /\ press = None
    /\ view = "home" /\ notes = <<>> /\ activeNote = None /\ theme = "dark"
    /\ deletedNote = None /\ undoTimer = NoTimer
    /\ edBlocks = <<>> /\ edTitle = "" /\ edIsHidden = FALSE /\ edIsPinned = FALSE
    /\ deletedBlock = None /\ blockTimers = {} /\ saveTimer = NoTimer
    /\ capNote = None
    /\ dragItem = None /\ dragOverItem = None
    /\ canvases = NoCanvas
    /\ now = StartTime /\ nextId = FirstFreshId
    /\ opsLeft = budget /\ grain = g
    /\ obs = ObsInit

(* the app on the device, with a file system that serves every call at once
   and in which the previous session left the file and local storage alike *)
StartFrom(stores, budget, g) ==
    /\ native = TRUE /\ io = "prompt" /\ order = "gesture"
    /\ lsData \in stores
    /\ fsData = lsData /\ fsWrites = <<>> /\ lsTheme = None
    /\ ConstructedState(budget, g)

Start(budget, g) == StartFrom(SeedStores, budget, g)

Init == Start(MaxOps, DEBOUNCE_MS)

(* The mount effects run in one go, in the order of the source: loadData is
   called and runs up to its first await; the save effect writes the initial,
   empty collection to local storage and, on the native platform, calls
   writeFile with it; the theme effect writes the initial theme.  On the web
   platform loadData has no await on its way: it has read both local-storage
   entries before the two effects overwrite them.  On the native platform it
   awaits the file read and resumes after them. *)

Boot == [ls |-> lsData, fs |-> fsData, theme |-> lsTheme, file |-> None]

(* after loadData's setNotes and setTheme the App renders again and its save
   and theme effects write the loaded collection and theme *)
FinishLoad(file, savedNotes, savedTheme) ==
    /\ notes' = LoadedNotes(native, file, savedNotes, notes)
    /\ theme' = LoadedTheme(savedTheme, theme)
    /\ lsData' = SaveEffect(notes')
    /\ PersistData(notes')
    /\ lsTheme' = Some(theme')

(* mount and load in one step: the web platform, and the native platform
   with a file system that serves the read, then the first write, at once *)
LoadData ==
    /\ ~mounted
    /\ ~native \/ io = "prompt"
    /\ mounted' = TRUE
    /\ IF native
       THEN FinishLoad(fsData, SaveEffect(notes), Some(theme))
       ELSE FinishLoad(None, lsData, lsTheme)
    /\ obs' = [obs EXCEPT !.last = "loadData",
                          !.script = IF notes' = <<>> THEN "start" ELSE "off",
                          !.boot = Some([Boot EXCEPT !.file = IF native THEN fsData ELSE None])]
    /\ UNCHANGED <<loading, exited, view, activeNote, homeVars, deletedNote, undoTimer>>
    /\ UNCHANGED <<edVars, envVars>>

(* mount on the native platform: the read is in flight when the effects
   have run *)
Mount ==
    /\ ~mounted
    /\ native /\ io = "free"
    /\ mounted' = TRUE
    /\ loading' = TRUE
    /\ lsData' = SaveEffect(notes)
    /\ PersistData(notes)
    /\ lsTheme' = Some(theme)
    /\ obs' = [obs EXCEPT !.last = "mount", !.script = "off", !.boot = Some(Boot)]
    /\ UNCHANGED <<exited, view, notes, activeNote, theme, homeVars, deletedNote, undoTimer>>
    /\ UNCHANGED <<edVars, envVars>>

(* Filesystem.readFile settles, with the content of the file or, when there
   is no file, with a rejection; loadData resumes *)
FsReadDone ==
    /\ loading
    /\ loading' = FALSE
    /\ FinishLoad(fsData, lsData, lsTheme)
    /\ obs' = [obs EXCEPT !.last = "loadData",
                          !.boot = Some([obs.boot[1] EXCEPT !.file = fsData])]
    /\ UNCHANGED <<mounted, exited, view, activeNote, homeVars, deletedNote, undoTimer>>
    /\ UNCHANGED <<edVars, envVars>>

RemoveAt(s, i) == SubSeq(s, 1, i - 1) \o SubSeq(s, i + 1, Len(s))

(* a Filesystem.writeFile call in flight is served: the file is replaced *)
FsWriteDone(i) ==
    /\ i \in 1..Len(fsWrites)
    /\ fsData' = Some(fsWrites[i])
    /\ fsWrites' = RemoveAt(fsWrites, i)
    /\ obs' = [obs EXCEPT !.last = "writeFile: done"]
    /\ UNCHANGED <<mounted, loading, exited, view, notes, activeNote, theme, lsTheme,
                   homeVars, deletedNote, undoTimer, lsData>>
    /\ UNCHANGED <<edVars, envVars>>

(* a Filesystem.writeFile call in flight rejects: persistData's catch logs
   the error *)
FsWriteFail(i) ==
    /\ i \in 1..Len(fsWrites)
    /\ fsWrites' = RemoveAt(fsWrites, i)
    /\ obs' = [obs EXCEPT !.last = "writeFile: failed"]
    /\ UNCHANGED <<mounted, loading, exited, view, notes, activeNote, theme, lsTheme,
                   homeVars, deletedNote, undoTimer, lsData, fsData>>
    /\ UNCHANGED <<edVars, envVars>>

(* a theme dot of the list view: onSetTheme = setTheme; the theme effect
   writes the preference *)
SetTheme(t) ==
    /\ UserEvent /\ view = "home"
    /\ t # theme
    /\ theme' = t
    /\ lsTheme' = Some(t)
    /\ obs' = [obs EXCEPT !.last = "setTheme", !.script = "off"]
    /\ UNCHANGED <<mounted, loading, exited, view, notes, activeNote, homeVars,
                   deletedNote, undoTimer, lsData, fsData, fsWrites>>
    /\ UNCHANGED <<edVars, now, nextId, grain, native, io, order>>

----------------------------------------------------------------------------
(* App: handlers *)

HandleCreateNote ==
    /\ UserEvent /\ view = "home"
    /\ activeNote' = None
    /\ view' = "edit"
    /\ EditorMount(None)
    /\ obs' = [ObsSession EXCEPT !.last = "handleCreateNote", !.left = None,
                  !.script = IF obs.script = "start" THEN "created" ELSE "off"]
    /\ showHidden' = FALSE /\ searchQuery' = <<>> /\ press' = None
    /\ UNCHANGED <<mounted, loading, exited, notes, theme, lsTheme, deletedNote, undoTimer,
                   lsData, fsData, fsWrites>>
    /\ UNCHANGED <<now, nextId, grain, native, io, order>>

(* handleSelectNote: setActiveNote(note); setView('edit') *)
OnSelect(i) ==
    /\ view = "home"
    /\ activeNote' = Some(notes[i])
    /\ view' = "edit"
    /\ EditorMount(Some(notes[i]))
    /\ obs' = [ObsSession EXCEPT !.last = "handleSelectNote", !.left = None,
                                 !.script = "off"]
    /\ showHidden' = FALSE /\ searchQuery' = <<>> /\ press' = None
    /\ UNCHANGED <<mounted, loading, exited, notes, theme, lsTheme, deletedNote, undoTimer,
                   lsData, fsData, fsWrites>>
    /\ UNCHANGED <<now, nextId, grain, native, io, order>>

(* a card is clicked *)
HandleSelectNote(i) == UserEvent /\ OnSelect(i)

(* handleSaveNote as the list view calls it, with no editor open *)
SaveAtHome(updatedNote, name) ==
    /\ view = "home"
    /\ notes' = Upsert(notes, updatedNote)
    /\ activeNote' = IF activeNote # None /\ activeNote[1].id = updatedNote.id
                     THEN Some(updatedNote) ELSE activeNote
    /\ lsData' = SaveEffect(notes')
    /\ PersistData(notes')
    /\ obs' = [obs EXCEPT !.last = name, !.script = "off"]
    /\ UNCHANGED <<mounted, loading, exited, view, theme, lsTheme, showHidden, searchQuery,
                   deletedNote, undoTimer>>
    /\ UNCHANGED <<edVars, now, nextId, grain, native, io, order>>

(* a button of a card's menu is clicked *)
SaveFromHome(updatedNote, name) ==
    UserEvent /\ SaveAtHome(updatedNote, name) /\ UNCHANGED press

(* n.isHidden as a condition: undefined counts as false *)
IsHidden(n) == "isHidden" \in DOMAIN n /\ n.isHidden

(* a toggle of the hidden flag that also takes the pin away *)
toggleHideUnpins(note) ==
    [k \in DOMAIN note \cup {"isHidden"} |->
        IF k = "isHidden" THEN ~IsHidden(note)
        ELSE IF k = "isPinned" THEN FALSE ELSE note[k]]

(* { ...note, isHidden: !note.isHidden }: a note without the flag gets it *)
toggleHide(note) ==
    [k \in DOMAIN note \cup {"isHidden"} |->
        IF k = "isHidden" THEN ~IsHidden(note) ELSE note[k]]

(* { ...note, isPinned: !note.isPinned } *)
togglePin(note) == [note EXCEPT !.isPinned = ~note.isPinned]

HandleToggleHideNote(i) == SaveFromHome(toggleHide(notes[i]), "handleToggleHideNote")

HandleTogglePinNote(i) == SaveFromHome(togglePin(notes[i]), "handleTogglePinNote")

(* the card menu's Delete in the list view, the menu's Delete in the editor
   (shown for a note prop that is not null) *)
HandleDeleteNote(noteId) ==
    /\ UserEvent
    /\ \/ view = "home"
       \/ view = "edit" /\ activeNote # None /\ activeNote[1].id = noteId
    /\ LET idx == IndexOfId(notes, noteId) IN
       IF idx = 0
       THEN /\ obs' = [obs EXCEPT !.last = "handleDeleteNote", !.script = "off"]
            /\ UNCHANGED <<appVars, edVars, now, nextId, grain, native, io, order>>
       ELSE /\ deletedNote' = Some(notes[idx])
            /\ notes' = FilterOutId(notes, noteId)
            /\ lsData' = SaveEffect(notes')
            /\ PersistData(notes')
            /\ IF activeNote # None /\ activeNote[1].id = noteId
               THEN /\ activeNote' = None
                    /\ view' = "home"
                    /\ IF view = "edit" THEN EditorUnmount ELSE UNCHANGED edVars
               ELSE UNCHANGED <<activeNote, view, edVars>>
            /\ undoTimer' = ScheduleNoteUndo(undoTimer)
            /\ obs' = [obs EXCEPT !.last = "handleDeleteNote", !.script = "off",
                          !.ndel = Some([note |-> notes[idx], at |-> now,
                                         restored |-> FALSE,
                                         pending |-> view = "edit" /\ obs.changed
                                                     /\ saveTimer # NoTimer,
                                         prevAt |-> IF deletedNote # None /\ obs.ndel # None
                                                    THEN obs.ndel[1].at ELSE -1])]
            /\ UNCHANGED <<mounted, loading, exited, theme, lsTheme, homeVars, now, nextId, grain, native, io, order>>

(* the Undo toast, rendered in both views while deletedNote is set *)
HandleUndoDelete ==
    /\ UserEvent
    /\ deletedNote # None
    /\ notes' = UndoInsert(notes, deletedNote[1])
    /\ lsData' = SaveEffect(notes')
    /\ PersistData(notes')
    /\ deletedNote' = None
    /\ undoTimer' = NoTimer
    /\ obs' = [obs EXCEPT !.last = "handleUndoDelete", !.script = "off",
                  !.ndel = IF obs.ndel # None
                           THEN Some([obs.ndel[1] EXCEPT !.restored = TRUE])
                           ELSE None]
    /\ UNCHANGED <<mounted, loading, exited, view, activeNote, theme, lsTheme, homeVars>>
    /\ UNCHANGED <<edVars, now, nextId, grain, native, io, order>>

(* the note undo timer's callback *)
UndoTimerFire ==
    /\ Running /\ undoTimer = 0
    /\ deletedNote' = None
    /\ undoTimer' = NoTimer
    /\ obs' = [obs EXCEPT !.last = "undoTimerFire"]
    /\ UNCHANGED <<mounted, loading, exited, view, notes, activeNote, theme, lsTheme, homeVars, lsData, fsData, fsWrites>>
    /\ UNCHANGED <<edVars, envVars>>

(* leaving the editor with the active note left in place *)
LeaveEditorKeepsNote(name) ==
    /\ activeNote' = activeNote
    /\ view' = "home"
    /\ EditorUnmount
    /\ obs' = [obs EXCEPT !.last = name, !.script = "off", !.left = PendingDraft]
    /\ showHidden' = FALSE /\ searchQuery' = <<>> /\ press' = None
    /\ UNCHANGED <<mounted, loading, exited, notes, theme, lsTheme, deletedNote, undoTimer,
                   lsData, fsData, fsWrites>>
    /\ UNCHANGED <<now, nextId, grain, native, io, order>>

(* setActiveNote(null); setView('home'): the Editor unmounts *)
LeaveEditor(name) ==
    /\ activeNote' = None
    /\ view' = "home"
    /\ EditorUnmount
    /\ obs' = [obs EXCEPT !.last = name, !.script = "off", !.left = PendingDraft]
    /\ showHidden' = FALSE /\ searchQuery' = <<>> /\ press' = None
    /\ UNCHANGED <<mounted, loading, exited, notes, theme, lsTheme, deletedNote, undoTimer,
                   lsData, fsData, fsWrites>>
    /\ UNCHANGED <<now, nextId, grain, native, io, order>>

(* the editor's back arrow *)
HandleBackToHome ==
    /\ UserEvent /\ view = "edit"
    /\ LeaveEditor("handleBackToHome")

(* the hardware back button's listener *)
BackButton ==
    /\ UserEvent /\ native
    /\ IF view = "edit"
       THEN LeaveEditor("backButton")
       ELSE /\ exited' = TRUE
            /\ obs' = [obs EXCEPT !.last = "exitApp", !.script = "off"]
            /\ UNCHANGED <<mounted, loading, view, notes, activeNote, theme, lsTheme, homeVars, deletedNote,
                           undoTimer, lsData, fsData, fsWrites>>
            /\ UNCHANGED <<edVars, now, nextId, grain, native, io, order>>

----------------------------------------------------------------------------
(* Editor: handlers.  A handler that sets blocks, title, isHidden or
   isPinned to a new value re-runs the autosave effect: its cleanup clears
   the pending timeout and its body schedules a new one, whose closure holds
   the note prop of that render. *)

(* the Editor is on screen: it is gone once rendering its block list threw *)
InEditor == Running /\ view = "edit" /\ \A k \in 1..Len(edBlocks) : edBlocks[k] # Undefined

RerunAutosave ==
    /\ saveTimer' = ScheduleAutosave(saveTimer)
    /\ capNote' = activeNote

EditorFrame ==
    UNCHANGED <<appVars, now, nextId, grain, native, io, order, dragItem, dragOverItem, canvases>>

(* the title input's onChange: setTitle(e.target.value) *)
SetTitle(v) ==
    /\ UserEvent /\ InEditor
    /\ v # edTitle
    /\ edTitle' = v
    /\ RerunAutosave
    /\ obs' = [ObsChange(obs, "setTitle", FALSE) EXCEPT
                  !.script = IF obs.script = "created" /\ v = "Trip"
                             THEN "titled" ELSE "off"]
    /\ UNCHANGED <<edBlocks, edIsHidden, edIsPinned, deletedBlock, blockTimers>>
    /\ EditorFrame

(* the menu's Pin / Unpin *)
TogglePinned ==
    /\ UserEvent /\ InEditor
    /\ edIsPinned' = ~edIsPinned
    /\ RerunAutosave
    /\ obs' = ObsChange(obs, "setIsPinned", FALSE)
    /\ UNCHANGED <<edBlocks, edTitle, edIsHidden, deletedBlock, blockTimers>>
    /\ EditorFrame

(* the menu's Hide / Unhide *)
ToggleHidden ==
    /\ UserEvent /\ InEditor
    /\ edIsHidden' = ~edIsHidden
    /\ RerunAutosave
    /\ obs' = ObsChange(obs, "setIsHidden", FALSE)
    /\ UNCHANGED <<edBlocks, edTitle, edIsPinned, deletedBlock, blockTimers>>
    /\ EditorFrame

(* an append that puts the new block first *)
addBlockFirst(blocks, type, content, id) == <<Block(id, type, content)>> \o blocks

addBlock(blocks, type, content, id) == Append(blocks, Block(id, type, content))

(* the toolbar: a text block starts empty, a picked file arrives as a data URL *)
AddBlock(type) ==
    /\ UserEvent /\ InEditor
    /\ Len(edBlocks) < MaxBlocks
    /\ edBlocks' = addBlock(edBlocks, type,
                            IF type = "text" THEN "" ELSE "img", generateId)
    /\ nextId' = nextId + 1
    /\ RerunAutosave
    /\ obs' = [ObsChange(obs, "addBlock", TRUE) EXCEPT
                  !.script = IF obs.script = "titled" /\ type = "text"
                             THEN "block" ELSE "off"]
    /\ UNCHANGED <<edTitle, edIsHidden, edIsPinned, deletedBlock, blockTimers>>
    /\ UNCHANGED <<appVars, now, grain, native, io, order, dragItem, dragOverItem, canvases>>

(* an update that adds the block it does not find *)
updateBlockOrAdd(blocks, id, content) ==
    IF id \in Ids(blocks)
    THEN [i \in 1..Len(blocks) |->
             IF blocks[i].id = id THEN [blocks[i] EXCEPT !.content = content]
             ELSE blocks[i]]
    ELSE Append(blocks, Block(id, "text", content))

(* an update that writes the content to every block *)
updateBlockEvery(blocks, id, content) ==
    [i \in 1..Len(blocks) |-> [blocks[i] EXCEPT !.content = content]]

updateBlock(blocks, id, content) ==
    [i \in 1..Len(blocks) |->
        IF blocks[i].id = id THEN [blocks[i] EXCEPT !.content = content]
        ELSE blocks[i]]

(* a text block's textarea onChange *)
UpdateBlock(id, content) ==
    /\ UserEvent /\ InEditor
    /\ \/ id \notin Ids(edBlocks)
       \/ \E i \in 1..Len(edBlocks) :
             edBlocks[i].id = id /\ edBlocks[i].type = "text"
             /\ edBlocks[i].content # content
    /\ edBlocks' = updateBlock(edBlocks, id, content)
    /\ RerunAutosave
    /\ obs' = [ObsChange(obs, "updateBlock", TRUE) EXCEPT
                  !.script = IF obs.script = "block" /\ content = "Paris was great"
                             THEN "typed" ELSE "off"]
    /\ UNCHANGED <<edTitle, edIsHidden, edIsPinned, deletedBlock, blockTimers>>
    /\ EditorFrame

(* a block's delete button *)
DeleteBlock(id) ==
    /\ UserEvent /\ InEditor
    /\ Cardinality(blockTimers) < MaxBlockTimers
    /\ LET index == IndexOfId(edBlocks, id) - 1 IN
       IF index = -1
       THEN /\ obs' = [obs EXCEPT !.last = "deleteBlock: no such id", !.script = "off"]
            /\ UNCHANGED <<edVars, appVars, now, nextId, grain, native, io, order>>
       ELSE /\ deletedBlock' = Some([block |-> edBlocks[index + 1], index |-> index])
            /\ edBlocks' = FilterOutId(edBlocks, id)
            /\ blockTimers' = BlockTimersAfterDelete(blockTimers, id)
            /\ RerunAutosave
            /\ obs' = [ObsChange(obs, "deleteBlock", TRUE) EXCEPT
                          !.del = Some([id |-> id, at |-> now, before |-> edBlocks,
                                        index |-> index, edited |-> FALSE,
                                        restored |-> FALSE])]
            /\ canvases' = [b \in DOMAIN canvases \ {id} |-> canvases[b]]
            /\ UNCHANGED <<edTitle, edIsHidden, edIsPinned>>
            /\ UNCHANGED <<appVars, now, nextId, grain, native, io, order, dragItem, dragOverItem>>

(* a restore that puts the block at the end *)
restoreBlockAtEnd(prev, buffered) == Append(prev, buffered.block)

restoreBlock(prev, buffered) == SpliceInsert(prev, buffered.index, buffered.block)

(* restoreBlock, the handler of the editor's Undo toast; with nothing in the
   buffer it returns at once *)
RestoreBlock ==
    /\ UserEvent /\ InEditor
    /\ IF deletedBlock = None
       THEN /\ obs' = [obs EXCEPT !.last = "restoreBlock: nothing buffered",
                                  !.script = "off"]
            /\ UNCHANGED <<edVars, appVars, now, nextId, grain, native, io, order>>
       ELSE /\ edBlocks' = restoreBlock(edBlocks, deletedBlock[1])
            /\ deletedBlock' = None
            /\ blockTimers' = BlockTimersAfterRestore(blockTimers,
                                                      deletedBlock[1].block.id)
            /\ RerunAutosave
            /\ obs' = [ObsChange(obs, "restoreBlock", FALSE) EXCEPT
                          !.del = IF obs.del # None
                                  THEN Some([obs.del[1] EXCEPT !.restored = TRUE])
                                  ELSE None]
            /\ UNCHANGED <<edTitle, edIsHidden, edIsPinned>>
            /\ EditorFrame

(* an update that adds the paths to the ones the block has *)
updateBlockDrawingsAppends(blocks, id, drawings) ==
    [i \in 1..Len(blocks) |->
        IF blocks[i].id = id
        THEN [k \in DOMAIN blocks[i] \cup {"drawings"} |->
                 IF k = "drawings"
                 THEN (IF "drawings" \in DOMAIN blocks[i] THEN blocks[i].drawings ELSE <<>>)
                      \o drawings
                 ELSE blocks[i][k]]
        ELSE blocks[i]]

(* { ...b, drawings }: a block without drawings gets them *)
updateBlockDrawings(blocks, id, drawings) ==
    [i \in 1..Len(blocks) |->
        IF blocks[i].id = id
        THEN [k \in DOMAIN blocks[i] \cup {"drawings"} |->
                 IF k = "drawings" THEN drawings ELSE blocks[i][k]]
        ELSE blocks[i]]

(* the drawing canvas of an image block saves its paths *)
UpdateBlockDrawings(id, drawings) ==
    /\ UserEvent /\ InEditor
    /\ \/ id \notin Ids(edBlocks)
       \/ \E i \in 1..Len(edBlocks) :
             edBlocks[i].id = id /\ edBlocks[i].type # "text"
    /\ edBlocks' = updateBlockDrawings(edBlocks, id, drawings)
    /\ RerunAutosave
    /\ obs' = ObsChange(obs, "updateBlockDrawings", TRUE)
    /\ UNCHANGED <<edTitle, edIsHidden, edIsPinned, deletedBlock, blockTimers>>
    /\ EditorFrame

(* a block's grip is picked up *)
HandleDragStart(position) ==
    /\ UserEvent /\ InEditor
    /\ position \in 0..(Len(edBlocks) - 1)
    /\ dragItem' = Some(position)
    /\ obs' = [obs EXCEPT !.last = "handleDragStart", !.script = "off",
                  !.drag = Some([list |-> edBlocks, from |-> position,
                                 tracked |-> position, expect |-> edBlocks,
                                 crossings |-> 0])]
    /\ UNCHANGED <<edBlocks, edTitle, edIsHidden, edIsPinned, deletedBlock,
                   blockTimers, saveTimer, capNote, dragOverItem, canvases>>
    /\ UNCHANGED <<appVars, now, nextId, grain, native, io, order>>

(* remove at from, insert at to; both 0-based *)
MoveElement(list, from, to) ==
    LET rest == [k \in 1..(Len(list) - 1) |->
                    IF k <= from THEN list[k] ELSE list[k + 1]]
    IN [k \in 1..Len(list) |->
           IF k < to + 1 THEN rest[k]
           ELSE IF k = to + 1 THEN list[from + 1]
           ELSE rest[k - 1]]

(* array[index]: undefined past the end *)
At(array, index) == IF index < Len(array) THEN array[index + 1] ELSE Undefined

(* the pointer enters the region of the block at position *)
HandleDragEnter(position) ==
    /\ InputEvent /\ InEditor
    /\ position \in 0..(Len(edBlocks) - 1)
    /\ IF dragItem = None
       THEN /\ obs' = [obs EXCEPT !.last = "handleDragEnter: no drag", !.script = "off"]
            /\ UNCHANGED <<edVars, appVars, now, nextId, grain, native, io, order>>
       ELSE /\ dragOverItem' = Some(position)
            /\ LET dragIndex == dragItem[1]
                   hoverIndex == position
               IN IF dragIndex = hoverIndex
                  THEN /\ obs' = [obs EXCEPT !.last = "handleDragEnter: same index",
                                             !.script = "off"]
                       /\ UNCHANGED <<edBlocks, saveTimer, capNote, dragItem>>
                  ELSE /\ edBlocks' = SpliceInsert(SpliceRemove(edBlocks, dragIndex),
                                                   hoverIndex, At(edBlocks, dragIndex))
                       /\ dragItem' = Some(hoverIndex)
                       /\ RerunAutosave
                       /\ obs' = [ObsChange(obs, "handleDragEnter", TRUE) EXCEPT
                                     !.drag = IF obs.drag = None THEN None ELSE
                                        Some([obs.drag[1] EXCEPT
                                           !.expect = MoveElement(obs.drag[1].expect,
                                                         obs.drag[1].tracked, position),
                                           !.tracked = position,
                                           !.crossings = Min(obs.drag[1].crossings + 1, 2)])]
            /\ UNCHANGED <<edTitle, edIsHidden, edIsPinned, deletedBlock, blockTimers, canvases>>
            /\ UNCHANGED <<appVars, now, nextId, grain, native, io, order>>

(* the block is dropped *)
HandleDragEnd ==
    /\ InputEvent /\ InEditor
    /\ dragItem # None
    /\ dragItem' = None
    /\ dragOverItem' = None
    /\ obs' = [obs EXCEPT !.last = "handleDragEnd", !.script = "off"]
    /\ UNCHANGED <<edBlocks, edTitle, edIsHidden, edIsPinned, deletedBlock,
                   blockTimers, saveTimer, capNote, canvases>>
    /\ UNCHANGED <<appVars, now, nextId, grain, native, io, order>>

(* a swap that forgets the temporary *)
moveBlockOverwrites(blocks, index, direction) ==
    LET newIndex == index + direction IN
    IF newIndex < 0 \/ newIndex >= Len(blocks) THEN blocks
    ELSE [blocks EXCEPT ![newIndex + 1] = blocks[index + 1]]

moveBlock(blocks, index, direction) ==
    LET newIndex == index + direction IN
    IF newIndex < 0 \/ newIndex >= Len(blocks) THEN blocks
    ELSE [blocks EXCEPT ![index + 1] = blocks[newIndex + 1],
                        ![newIndex + 1] = blocks[index + 1]]

(* a block's move-up / move-down button *)
MoveBlock(index, direction) ==
    /\ UserEvent /\ InEditor
    /\ index \in 0..(Len(edBlocks) - 1)
    /\ LET newIndex == index + direction IN
       IF newIndex < 0 \/ newIndex >= Len(edBlocks)
       THEN /\ obs' = [obs EXCEPT !.last = "moveBlock: at the boundary", !.script = "off"]
            /\ UNCHANGED <<edVars, appVars, now, nextId, grain, native, io, order>>
       ELSE /\ edBlocks' = moveBlock(edBlocks, index, direction)
            /\ RerunAutosave
            /\ obs' = ObsChange(obs, "moveBlock", TRUE)
            /\ UNCHANGED <<edTitle, edIsHidden, edIsPinned, deletedBlock, blockTimers>>
            /\ EditorFrame

----------------------------------------------------------------------------
(* DrawingCanvas (src/unnamed/part_002, the components/DrawingCanvas that
   BlockRender imports): the overlay of a media block in drawing mode.  The
   canvas is modelled along one horizontal line: a point is its x, in CSS
   pixels, on the line y = 0. *)

Point(x) == [x |-> x, y |-> 0]

(* where the pointer is sampled: the left edge, the middle, the right edge *)
PointerXs == {0, CanvasWidth \div 2, CanvasWidth}

Eraser == "eraser"

DrawingPath(points, color, width) == [points |-> points, color |-> color, width |-> width]

(* the state of a DrawingCanvas opened with initialPaths *)
NewCanvas(initialPaths) ==
    [paths |-> initialPaths, isDrawing |-> FALSE, currentPoints |-> <<>>,
     selectedColor |-> NEON_COLORS[1], tool |-> "pen"]

(* block.drawings || [] *)
DrawingsOf(block) == IF "drawings" \in DOMAIN block THEN block.drawings ELSE <<>>

startDrawing(c, point) == [c EXCEPT !.isDrawing = TRUE, !.currentPoints = <<point>>]

draw(c, point) ==
    IF ~c.isDrawing THEN c
    ELSE [c EXCEPT !.currentPoints = Append(c.currentPoints, point)]

(* a release that commits whatever the buffer holds *)
stopDrawingCommitsAnyStroke(c) ==
    IF ~c.isDrawing THEN c
    ELSE [c EXCEPT !.isDrawing = FALSE,
                   !.paths = Append(c.paths,
                                DrawingPath(c.currentPoints,
                                            IF c.tool = "eraser" THEN Eraser
                                            ELSE c.selectedColor,
                                            brushSize)),
                   !.currentPoints = <<>>]

stopDrawing(c) ==
    IF ~c.isDrawing THEN c
    ELSE [c EXCEPT !.isDrawing = FALSE,
                   !.paths = IF Len(c.currentPoints) > 1
                             THEN Append(c.paths,
                                      DrawingPath(c.currentPoints,
                                                  IF c.tool = "eraser" THEN Eraser
                                                  ELSE c.selectedColor,
                                                  brushSize))
                             ELSE c.paths,
                   !.currentPoints = <<>>]

(* a slice that drops the first path *)
sliceDropsFirst(p) == SubSeq(p, 2, Len(p))

(* p.slice(0, -1) *)
slice(p) == SubSeq(p, 1, Len(p) - 1)

(* a Cancel that hands the paths over *)
onCancelSaves(blocks, id, paths) == updateBlockDrawings(blocks, id, paths)

(* onCancel={() => setIsDrawingMode(false)}: the blocks are not touched *)
onCancel(blocks, id, paths) == blocks

(* a Save that hands over the paths the canvas was opened with *)
handleSaveInitialPaths(c, initialPaths) == initialPaths

(* handleSave: onSave(paths) *)
handleSave(c, initialPaths) == c.paths

WithoutCanvas(id) == [b \in DOMAIN canvases \ {id} |-> canvases[b]]

WithCanvas(id, c) == [b \in DOMAIN canvases \cup {id} |-> IF b = id THEN c ELSE canvases[b]]

(* Rendering.  A surface gives each pixel of the line its colour, or
   Transparent.  A stroke with round caps paints the pixels within half its
   line width of a segment of the path. *)

Pixels == 0..CanvasWidth

Transparent == "transparent"

(* ctx.clearRect over the whole canvas *)
clearRect == [p \in Pixels |-> Transparent]

(* ctx.lineWidth: path.width for a pen, path.width times eraserScale for an
   eraser path *)
lineWidth(path, eraserScale) ==
    IF path.color = Eraser THEN path.width * eraserScale ELSE path.width

(* the pixel is within half the line width of the segment from a to b *)
InStroke(pixel, a, b, width) ==
    LET lo == Min(a.x, b.x)
        hi == IF a.x > b.x THEN a.x ELSE b.x
        distance == IF pixel < lo THEN lo - pixel
                    ELSE IF pixel > hi THEN pixel - hi ELSE 0
    IN 2 * distance <= width

(* beginPath, moveTo, lineTo.., stroke: destination-out clears what the
   stroke covers, source-over paints it *)
stroke(surface, path, eraserScale) ==
    IF Len(path.points) < 2 THEN surface
    ELSE [p \in Pixels |->
            IF \E i \in 1..(Len(path.points) - 1) :
                  InStroke(p, path.points[i], path.points[i + 1],
                           lineWidth(path, eraserScale))
            THEN (IF path.color = Eraser THEN Transparent ELSE path.color)
            ELSE surface[p]]

(* a loop that strokes the eraser paths after all the others *)
RECURSIVE forEachErasersLast(_, _, _)
forEachErasersLast(paths, surface, eraserScale) ==
    LET pens == SelectSeq(paths, LAMBDA path : path.color # Eraser)
        erasers == SelectSeq(paths, LAMBDA path : path.color = Eraser)
        ordered == pens \o erasers
    IN IF paths = <<>> THEN surface
       ELSE IF ordered = paths /\ Len(paths) = 1
            THEN stroke(surface, paths[1], eraserScale)
            ELSE forEachErasersLast(<<ordered[Len(ordered)]>>,
                     forEachErasersLast(SubSeq(ordered, 1, Len(ordered) - 1),
                                        surface, eraserScale),
                     eraserScale)

(* paths.forEach(path => ...): each path is stroked on what the ones before
   it left *)
RECURSIVE forEach(_, _, _)
forEach(paths, surface, eraserScale) ==
    IF paths = <<>> THEN surface
    ELSE stroke(forEach(SubSeq(paths, 1, Len(paths) - 1), surface, eraserScale),
                paths[Len(paths)], eraserScale)

(* renderCanvas of DrawingCanvas: an eraser is four brush widths wide *)
renderCanvas(paths) == forEach(paths, clearRect, 4)

(* BlockRender's effect for the read-only canvas of a media block that is
   not in drawing mode: an eraser is two brush widths wide *)
renderDrawings(drawings) == forEach(drawings, clearRect, 2)

(* a pointer event on a canvas: the pointer gestures are not counted among
   the user's events; their number is bounded by the paths and points of a
   canvas *)
PointerEvent ==
    /\ Running /\ 0 \notin Deadlines
    /\ InEditor /\ dragItem = None
    /\ UNCHANGED opsLeft

CanvasFrame ==
    /\ UNCHANGED <<edBlocks, edTitle, edIsHidden, edIsPinned, deletedBlock,
                   blockTimers, saveTimer, capNote, dragItem, dragOverItem>>
    /\ UNCHANGED <<appVars, now, nextId, grain, native, io, order>>

ObsDraw(name, id, expect) ==
    [obs EXCEPT !.last = name, !.script = "off",
                !.draw = [b \in DOMAIN obs.draw |->
                             IF b = id THEN [obs.draw[b] EXCEPT !.expect = expect]
                             ELSE obs.draw[b]]]

(* the pencil button of a media block: setIsDrawingMode(true) *)
OpenCanvas(id) ==
    /\ UserEvent /\ InEditor
    /\ id \notin DOMAIN canvases
    /\ \E i \in 1..Len(edBlocks) :
          /\ edBlocks[i].id = id /\ edBlocks[i].type # "text"
          /\ canvases' = WithCanvas(id, NewCanvas(DrawingsOf(edBlocks[i])))
          /\ obs' = [obs EXCEPT !.last = "openCanvas", !.script = "off",
                        !.draw = [b \in DOMAIN obs.draw \cup {id} |->
                                     IF b = id
                                     THEN [blocks |-> edBlocks,
                                           initial |-> DrawingsOf(edBlocks[i]),
                                           expect |-> DrawingsOf(edBlocks[i]),
                                           strokes |-> 0, undos |-> 0,
                                           saved |-> FALSE]
                                     ELSE obs.draw[b]]]
    /\ CanvasFrame

(* onMouseDown / onTouchStart *)
StartDrawing(id, point) ==
    /\ PointerEvent
    /\ id \in DOMAIN canvases
    /\ Len(canvases[id].paths) < MaxPaths
    /\ canvases' = WithCanvas(id, startDrawing(canvases[id], point))
    /\ obs' = [obs EXCEPT !.last = "startDrawing", !.script = "off"]
    /\ CanvasFrame

(* onMouseMove / onTouchMove: the pointer moves to the right *)
Draw(id, point) ==
    /\ PointerEvent
    /\ id \in DOMAIN canvases
    /\ LET c == canvases[id] IN
       /\ c.isDrawing =>
             /\ Len(c.currentPoints) < MaxPoints
             /\ point.x > c.currentPoints[Len(c.currentPoints)].x
       /\ canvases' = WithCanvas(id, draw(c, point))
       /\ obs' = [obs EXCEPT !.last = IF c.isDrawing THEN "draw"
                                      ELSE "draw: no pointer down",
                             !.script = "off"]
    /\ CanvasFrame

(* onMouseUp / onMouseLeave / onTouchEnd *)
StopDrawing(id) ==
    /\ PointerEvent
    /\ id \in DOMAIN canvases
    /\ LET c == canvases[id] IN
       /\ canvases' = WithCanvas(id, stopDrawing(c))
       /\ obs' =
            IF c.isDrawing /\ Len(c.currentPoints) >= 2
            THEN [ObsDraw("stopDrawing", id,
                          Append(obs.draw[id].expect,
                                 [points |-> c.currentPoints,
                                  color |-> IF c.tool = "eraser" THEN "eraser"
                                            ELSE c.selectedColor,
                                  width |-> brushSize]))
                     EXCEPT !.draw[id].strokes = Min(@ + 1, MaxPaths)]
            ELSE [obs EXCEPT !.last = IF c.isDrawing THEN "stopDrawing: a dot"
                                      ELSE "stopDrawing: no pointer down",
                             !.script = "off"]
    /\ CanvasFrame

(* the pen and eraser buttons: setTool *)
SetTool(id, tool) ==
    /\ UserEvent /\ InEditor
    /\ id \in DOMAIN canvases
    /\ tool # canvases[id].tool
    /\ canvases' = WithCanvas(id, [canvases[id] EXCEPT !.tool = tool])
    /\ obs' = [obs EXCEPT !.last = "setTool", !.script = "off"]
    /\ CanvasFrame

(* a colour of the tray: setSelectedColor(color); setTool('pen') *)
SetSelectedColor(id, color) ==
    /\ UserEvent /\ InEditor
    /\ id \in DOMAIN canvases
    /\ color # canvases[id].selectedColor \/ canvases[id].tool # "pen"
    /\ canvases' = WithCanvas(id, [canvases[id] EXCEPT !.selectedColor = color,
                                                       !.tool = "pen"])
    /\ obs' = [obs EXCEPT !.last = "setSelectedColor", !.script = "off"]
    /\ CanvasFrame

(* the undo button: setPaths(p => p.slice(0, -1)) *)
UndoPath(id) ==
    /\ UserEvent /\ InEditor
    /\ id \in DOMAIN canvases
    /\ canvases' = WithCanvas(id, [canvases[id] EXCEPT !.paths = slice(@)])
    /\ obs' = [ObsDraw(IF canvases[id].paths = <<>> THEN "undo: no path" ELSE "undo", id,
                       IF obs.draw[id].expect = <<>> THEN <<>>
                       ELSE [k \in 1..(Len(obs.draw[id].expect) - 1) |->
                                obs.draw[id].expect[k]])
                  EXCEPT !.draw[id].undos = Min(@ + 1, 2)]
    /\ CanvasFrame

(* the check button: handleSave, then BlockRender's onSave:
   onUpdateDrawings(block.id, paths); setIsDrawingMode(false) *)
HandleSave(id) ==
    /\ UserEvent /\ InEditor
    /\ id \in DOMAIN canvases
    /\ edBlocks' = updateBlockDrawings(edBlocks, id,
                       handleSave(canvases[id], obs.draw[id].initial))
    /\ canvases' = WithoutCanvas(id)
    /\ RerunAutosave
    /\ obs' = [ObsChange(obs, "handleSave", TRUE) EXCEPT
                  !.draw[id].saved = TRUE]
    /\ UNCHANGED <<edTitle, edIsHidden, edIsPinned, deletedBlock, blockTimers>>
    /\ UNCHANGED <<appVars, now, nextId, grain, native, io, order, dragItem, dragOverItem>>

(* the X button: onCancel *)
CancelDrawing(id) ==
    /\ UserEvent /\ InEditor
    /\ id \in DOMAIN canvases
    /\ edBlocks' = onCancel(edBlocks, id, canvases[id].paths)
    /\ canvases' = WithoutCanvas(id)
    /\ obs' = [obs EXCEPT !.last = "onCancel", !.script = "off"]
    /\ UNCHANGED <<edTitle, edIsHidden, edIsPinned, deletedBlock,
                   blockTimers, saveTimer, capNote, dragItem, dragOverItem>>
    /\ UNCHANGED <<appVars, now, nextId, grain, native, io, order>>

----------------------------------------------------------------------------
(* Timers *)

(* the autosave timeout's callback *)
AutosaveFire ==
    /\ InEditor /\ saveTimer = 0
    /\ saveTimer' = NoTimer
    /\ IF AutosaveSkips(capNote, edBlocks, edTitle)
       THEN /\ obs' = [obs EXCEPT !.last = "autosaveSkip", !.changed = FALSE]
            /\ UNCHANGED <<notes, activeNote, lsData, fsData, fsWrites, nextId>>
       ELSE LET updatedNote == UpdatedNote(capNote, edBlocks, edTitle, edIsPinned,
                                           edIsHidden, theme, generateId, now)
                stored == IndexOfId(notes, updatedNote.id)
            IN /\ notes' = Upsert(notes, updatedNote)
               /\ activeNote' = IF capNote # None /\ capNote[1].id = updatedNote.id
                                THEN Some(updatedNote) ELSE activeNote
               /\ lsData' = SaveEffect(notes')
               /\ PersistData(notes')
               /\ nextId' = IF capNote # None /\ capNote[1].id # 0
                            THEN nextId ELSE nextId + 1
               /\ obs' = [obs EXCEPT
                     !.last = "autosaveCommit", !.changed = FALSE,
                     !.commits = Min(obs.commits + 1, 2),
                     !.sessionIds = obs.sessionIds \cup {updatedNote.id},
                     !.saved = Some(updatedNote),
                     !.unchangedSaves =
                         IF stored # 0 /\ DraftOf(notes[stored]) = Draft
                         THEN Min(obs.unchangedSaves + 1, 2)
                         ELSE obs.unchangedSaves]
    /\ UNCHANGED <<mounted, loading, exited, view, theme, lsTheme, homeVars, deletedNote, undoTimer>>
    /\ UNCHANGED <<edBlocks, edTitle, edIsHidden, edIsPinned, deletedBlock,
                   blockTimers, capNote, dragItem, dragOverItem, canvases, now, opsLeft, grain, native, io, order>>

(* a block-expiry timeout's callback *)
BlockTimerFire(t) ==
    /\ InEditor /\ t \in blockTimers /\ t.left = 0
    /\ deletedBlock' = ExpireBlock(deletedBlock, t.id)
    /\ blockTimers' = blockTimers \ {t}
    /\ obs' = [obs EXCEPT !.last = "blockTimerFire"]
    /\ UNCHANGED <<edBlocks, edTitle, edIsHidden, edIsPinned, saveTimer, capNote,
                   dragItem, dragOverItem, canvases>>
    /\ UNCHANGED <<appVars, envVars>>

(* time passes while a timer is pending: by one step, or up to the next
   deadline when that comes first *)
Elapse(timer, d) == IF timer = NoTimer THEN NoTimer ELSE timer - d

Tick ==
    /\ Running
    /\ Deadlines # {} /\ 0 \notin Deadlines
    /\ \A k \in DOMAIN press : press[k].down
    /\ LET next == CHOOSE x \in Deadlines : \A y \in Deadlines : x <= y
           d == Min(IF saveTimer # NoTimer \/ press # None THEN grain ELSE LongStep, next)
       IN /\ now + d <= MaxTime
          /\ now' = now + d
          /\ saveTimer' = Elapse(saveTimer, d)
          /\ undoTimer' = Elapse(undoTimer, d)
          /\ blockTimers' = {[t EXCEPT !.left = t.left - d] : t \in blockTimers}
          /\ press' = IF press = None THEN None
                       ELSE Some([press[1] EXCEPT !.left = Elapse(@, d)])
          /\ obs' = [obs EXCEPT !.last = "tick"]
    /\ UNCHANGED <<mounted, loading, exited, view, notes, activeNote, theme, lsTheme,
                   showHidden, searchQuery, deletedNote, lsData, fsData, fsWrites>>
    /\ UNCHANGED <<edBlocks, edTitle, edIsHidden, edIsPinned, deletedBlock, capNote,
                   dragItem, dragOverItem, canvases>>
    /\ UNCHANGED <<nextId, opsLeft, grain, native, io, order>>

----------------------------------------------------------------------------
Next ==
    \/ LoadData
    \/ HandleCreateNote
    \/ \E i \in 1..Len(notes) : HandleSelectNote(i)
    \/ \E i \in 1..Len(notes) : HandleToggleHideNote(i)
    \/ \E i \in 1..Len(notes) : HandleTogglePinNote(i)
    \/ \E id \in Ids(notes) : HandleDeleteNote(id)
    \/ HandleUndoDelete
    \/ UndoTimerFire
    \/ HandleBackToHome
    \/ BackButton
    \/ \E v \in Titles : SetTitle(v)
    \/ TogglePinned
    \/ ToggleHidden
    \/ \E type \in BlockTypes : AddBlock(type)
    \/ \E id \in Ids(edBlocks), c \in Contents : UpdateBlock(id, c)
    \/ \E id \in Ids(edBlocks) : DeleteBlock(id)
    \/ RestoreBlock
    \/ AutosaveFire
    \/ \E t \in blockTimers : BlockTimerFire(t)
    \/ Tick

Spec == Init /\ [][Next]_vars

(* an id that no note and no block has *)
UnknownId == FirstFreshId + MaxOps + MaxBlocks + 10

Drawings == {<<>>, <<"path">>}

(* the editor of a stored note with its block handlers, and the note's
   deletion; the calls may name ids that are not there and moves across the
   ends of the list *)
NextBlocks ==
    \/ LoadData
    \/ \E i \in 1..Len(notes) : HandleSelectNote(i)
    \/ \E id \in Ids(notes) \cup {UnknownId} : HandleDeleteNote(id)
    \/ \E id \in Ids(edBlocks) \cup {UnknownId}, c \in Contents : UpdateBlock(id, c)
    \/ \E id \in Ids(edBlocks) \cup {UnknownId}, d \in Drawings : UpdateBlockDrawings(id, d)
    \/ \E id \in Ids(edBlocks) \cup {UnknownId} : DeleteBlock(id)
    \/ RestoreBlock
    \/ \E p \in 0..MaxBlocks : HandleDragStart(p)
    \/ \E p \in 0..MaxBlocks : HandleDragEnter(p)
    \/ HandleDragEnd
    \/ \E i \in 0..MaxBlocks, direction \in {-1, 1} : MoveBlock(i, direction)
    \/ AutosaveFire
    \/ \E t \in blockTimers : BlockTimerFire(t)
    \/ Tick

InitBlocks == StartFrom(SeedBlockStores, MaxOps, DEBOUNCE_MS)

SpecBlocks == InitBlocks /\ [][NextBlocks]_vars

(* a note written by an older version: no isHidden, no theme, a block
   without drawings *)
SeedLegacy ==
    [id |-> 1, title |-> "Trip", createdAt |-> 100, updatedAt |-> 200,
     blocks |-> <<[id |-> 2, type |-> "text", content |-> "Paris was great"]>>,
     isPinned |-> FALSE]

LocalStores == {None, Some(Garbled), Some(JSONstringify(<<SeedA, SeedB>>))}

FileStores == {None, Some(EmptyText), Some(Garbled), Some(JSONstringify(<<SeedLegacy>>))}

ThemeStores == {None, Some("pink"), Some("neon"), Some("constructor")}

(* both platforms, with whatever earlier sessions and failures left in the
   stores, and a file system that serves its calls when and as it likes *)
InitStore ==
    /\ native \in BOOLEAN /\ io = "free" /\ order = "gesture"
    /\ lsData \in LocalStores
    /\ fsData \in (IF native THEN FileStores ELSE {None})
    /\ lsTheme \in ThemeStores
    /\ fsWrites = <<>>
    /\ ConstructedState(MaxOps - 1, DEBOUNCE_MS)

(* startup, the list view's changes of the collection and of the theme, and
   the file system *)
NextStore ==
    \/ LoadData
    \/ Mount
    \/ FsReadDone
    \/ \E i \in 1..Len(fsWrites) : FsWriteDone(i)
    \/ \E i \in 1..Len(fsWrites) : FsWriteFail(i)
    \/ \E t \in Themes : SetTheme(t)
    \/ \E i \in 1..Len(notes) : HandleTogglePinNote(i)
    \/ BackButton

SpecStore == InitStore /\ [][NextStore]_vars

----------------------------------------------------------------------------
(* Home: the list view's filter.  Where the search reads a title or a
   content it is a string of characters, a sequence of one-character
   strings. *)

(* the letters that have two cases, <<upper, lower>> *)
Letters ==
    {<<"A", "a">>, <<"B", "b">>, <<"G", "g">>, <<"L", "l">>, <<"M", "m">>,
     <<"O", "o">>, <<"X", "x">>}

WhiteSpace == {" "}

(* a lower-casing that leaves every character as it is *)
toLowerCaseKeepsCase(str) == str

(* String.prototype.toLowerCase *)
toLowerCase(str) ==
    [i \in 1..Len(str) |->
        IF \E p \in Letters : p[1] = str[i]
        THEN (CHOOSE p \in Letters : p[1] = str[i])[2]
        ELSE str[i]]

(* String.prototype.includes *)
includes(str, searchString) ==
    \E i \in 0..(Len(str) - Len(searchString)) :
       SubSeq(str, i + 1, i + Len(searchString)) = searchString

(* String.prototype.trim *)
trim(str) ==
    LET kept == {i \in 1..Len(str) : str[i] \notin WhiteSpace}
    IN IF kept = {} THEN <<>>
       ELSE SubSeq(str, CHOOSE i \in kept : \A j \in kept : i <= j,
                        CHOOSE i \in kept : \A j \in kept : i >= j)

(* a filter whose default view shows the hidden notes too *)
matchesVisibilityShowsAll(n) == IF showHidden THEN IsHidden(n) ELSE TRUE

matchesVisibility(n) == IF showHidden THEN IsHidden(n) ELSE ~IsHidden(n)

matchesSearch(n) ==
    IF trim(searchQuery) # <<>>
    THEN LET query == toLowerCase(searchQuery)
         IN \/ includes(toLowerCase(n.title), query)
            \/ \E j \in 1..Len(n.blocks) :
                  /\ n.blocks[j].type = "text"
                  /\ includes(toLowerCase(n.blocks[j].content), query)
    ELSE TRUE

(* const filteredNotes = notes.filter(...) *)
filteredNotes == SelectSeq(notes, LAMBDA n : matchesVisibility(n) /\ matchesSearch(n))

(* a comparator that does not look at the pins *)
compareNotesByDateOnly(a, b) == b.updatedAt - a.updatedAt

(* the comparator of the sort: negative when a comes first *)
compareNotes(a, b) ==
    IF a.isPinned # b.isPinned
    THEN (IF a.isPinned THEN -1 ELSE 1)
    ELSE b.updatedAt - a.updatedAt

(* Array.prototype.sort, which is stable: each element goes before the first
   one it compares less than, behind its equals *)
RECURSIVE sort(_)
sort(array) ==
    IF array = <<>> THEN <<>>
    ELSE LET sorted == sort(SubSeq(array, 1, Len(array) - 1))
             x == array[Len(array)]
             later == {i \in 1..Len(sorted) : compareNotes(x, sorted[i]) < 0}
             k == IF later = {} THEN Len(sorted) + 1
                  ELSE CHOOSE i \in later : \A j \in later : i <= j
         IN SubSeq(sorted, 1, k - 1) \o <<x>> \o SubSeq(sorted, k, Len(sorted))

(* const sortedNotes = [...filteredNotes].sort(...) *)
sortedNotes == sort(filteredNotes)

(* the search field: onChange = setSearchQuery(e.target.value) *)
SetSearchQuery(value) ==
    /\ UserEvent /\ view = "home"
    /\ value # searchQuery
    /\ searchQuery' = value
    /\ obs' = [obs EXCEPT !.last = "setSearchQuery", !.script = "off"]
    /\ UNCHANGED <<mounted, loading, exited, view, notes, activeNote, theme, lsTheme,
                   showHidden, press, deletedNote, undoTimer, lsData, fsData, fsWrites>>
    /\ UNCHANGED <<edVars, now, nextId, grain, native, io, order>>

(* the eye button: setShowHidden(!showHidden) *)
SetShowHidden ==
    /\ UserEvent /\ view = "home"
    /\ showHidden' = ~showHidden
    /\ obs' = [obs EXCEPT !.last = "setShowHidden", !.script = "off"]
    /\ UNCHANGED <<mounted, loading, exited, view, notes, activeNote, theme, lsTheme,
                   searchQuery, press, deletedNote, undoTimer, lsData, fsData, fsWrites>>
    /\ UNCHANGED <<edVars, now, nextId, grain, native, io, order>>

(* a card's menu is there for the cards the list shows *)
Shown(n) == \E k \in 1..Len(sortedNotes) : sortedNotes[k].id = n.id

(* collections for the list view *)
HomeAlpha == Note(1, <<"A", "l", "p", "h", "a">>, 100, 200, <<>>, FALSE, FALSE, "dark")
HomeBeta == Note(2, <<"b", "e", "t", "a">>, 300, 400, <<>>, FALSE, FALSE, "dark")
HomeGamma == Note(3, <<"G", "a", "m", "m", "a">>, 500, 600, <<>>, FALSE, FALSE, "dark")

(* a note whose text says "Lab 1", next to an image and a video whose
   contents have letters too *)
HomeMedia ==
    Note(1, <<>>, 100, 200,
         <<Block(2, "text", <<"L", "a", "b", " ", "1">>),
           Block(3, "image", <<"b", "l", "o", "b", ":", "x">>),
           Block(4, "video", <<"m", "o", "x">>)>>,
         FALSE, FALSE, "dark")

HomeHiddenBox == Note(5, <<"B", "o", "x">>, 300, 400, <<>>, FALSE, TRUE, "dark")

(* a note of an older version, without isHidden and theme, and two notes
   last updated at one time *)
HomeOld ==
    [id |-> 6, title |-> <<"O", "l", "d">>, createdAt |-> 100, updatedAt |-> 200,
     blocks |-> <<>>, isPinned |-> FALSE]
HomeLab == Note(7, <<"L", "a", "b">>, 300, 400, <<>>, FALSE, FALSE, "dark")
HomeLog == Note(8, <<"L", "o", "g">>, 300, 400, <<>>, FALSE, FALSE, "dark")

HomeStores ==
    {Some(JSONstringify(<<HomeAlpha, HomeBeta, HomeGamma>>)),
     Some(JSONstringify(<<HomeMedia, HomeHiddenBox>>)),
     Some(JSONstringify(<<HomeLab, HomeLog, HomeOld>>))}

Queries ==
    {<<>>, <<"b">>, <<"B">>, <<" ">>, <<" ", "b">>, <<"A", "L">>, <<"m", "a">>,
     <<"o", "x">>, <<"b", " ", "1">>, <<"l", "o">>}

InitHome ==
    /\ native = FALSE /\ io = "prompt" /\ order = "gesture"
    /\ lsData \in HomeStores
    /\ fsData = None /\ fsWrites = <<>> /\ lsTheme = None
    /\ ConstructedState(MaxOps, DEBOUNCE_MS)

NextHome ==
    \/ LoadData
    \/ \E value \in Queries : SetSearchQuery(value)
    \/ SetShowHidden
    \/ \E i \in 1..Len(notes) : Shown(notes[i]) /\ HandleToggleHideNote(i)
    \/ \E i \in 1..Len(notes) : Shown(notes[i]) /\ HandleTogglePinNote(i)

SpecHome == InitHome /\ [][NextHome]_vars

----------------------------------------------------------------------------
(* NoteCard: the press on a card, outside its menu button and with its menu
   closed.  One pointer: a press lasts from its mousedown or touchstart to
   the click that follows its release, and the other cards keep their
   initial state, isPressing false and timerRef.current null.  The
   mousedown and mouseup that a browser sends after a tap's touchend call
   startPress and endPress once more at the same instant, which sets the
   timeout and clears it again.  A touch is released on the card it began
   on; a mouse button is released on the card only when the card is still
   where it was, and the click follows on the card then. *)

(* the place of the card in the grid: sortedNotes.map(note => <NoteCard key={note.id} ..>) *)
PlaceOf(id) == CHOOSE k \in 1..Len(sortedNotes) : sortedNotes[k].id = id

(* the delay of startPress's setTimeout *)
LONG_PRESS_MS == 500

(* startPress: setIsPressing(true); timerRef.current = setTimeout(.., 500).
   The callback holds the note of this render. *)
StartPress(i) ==
    /\ UserEvent /\ view = "home" /\ Shown(notes[i])
    /\ press' = Some([note |-> notes[i], isPressing |-> TRUE, timerRef |-> TRUE,
                      left |-> LONG_PRESS_MS, down |-> TRUE, start |-> now,
                      place |-> PlaceOf(notes[i].id), toggled |-> 0])
    /\ obs' = [obs EXCEPT !.last = "startPress", !.script = "off"]
    /\ UNCHANGED <<mounted, loading, exited, view, notes, activeNote, theme, lsTheme,
                   showHidden, searchQuery, deletedNote, undoTimer, lsData, fsData, fsWrites>>
    /\ UNCHANGED <<edVars, now, nextId, grain, native, io, order>>

(* the timeout's callback: setIsPressing(false); onTogglePin(note).
   timerRef.current keeps the id of the timeout. *)
PressTimerFire ==
    /\ Running /\ press # None /\ press[1].left = 0
    /\ SaveAtHome(togglePin(press[1].note), "onTogglePin")
    /\ press' = Some([press[1] EXCEPT !.isPressing = FALSE, !.left = NoTimer,
                                      !.toggled = @ + 1])
    /\ UNCHANGED opsLeft

(* endPress, on mouseup, touchend or mouseleave: setIsPressing(false);
   clearTimeout(timerRef.current); timerRef.current = null *)
EndPress ==
    /\ Running /\ 0 \notin Deadlines
    /\ press # None /\ press[1].down
    /\ press' = Some([press[1] EXCEPT !.isPressing = FALSE, !.timerRef = FALSE,
                                      !.left = NoTimer, !.down = FALSE])
    /\ obs' = [obs EXCEPT !.last = "endPress"]
    /\ UNCHANGED <<mounted, loading, exited, view, notes, activeNote, theme, lsTheme,
                   showHidden, searchQuery, deletedNote, undoTimer, lsData, fsData, fsWrites>>
    /\ UNCHANGED <<edVars, envVars>>

(* the card's onClick: if (!isPressing && !timerRef.current && !showMenu)
   onSelect(note), with the note of the last render *)
OnClick ==
    /\ Running /\ press # None /\ ~press[1].down
    /\ IF ~press[1].isPressing /\ ~press[1].timerRef
       THEN \E i \in 1..Len(notes) :
               notes[i].id = press[1].note.id /\ OnSelect(i) /\ UNCHANGED opsLeft
       ELSE /\ press' = None
            /\ obs' = [obs EXCEPT !.last = "onClick"]
            /\ UNCHANGED <<mounted, loading, exited, view, notes, activeNote, theme,
                           lsTheme, showHidden, searchQuery, deletedNote, undoTimer,
                           lsData, fsData, fsWrites>>
            /\ UNCHANGED <<edVars, envVars>>

(* the mouse button is released after the pin has moved the card away from
   under the pointer: none of the card's handlers is called, and the next
   press on the card sets isPressing and timerRef.current anew *)
ReleaseElsewhere ==
    /\ Running /\ 0 \notin Deadlines
    /\ press # None /\ press[1].down
    /\ PlaceOf(press[1].note.id) # press[1].place
    /\ press' = None
    /\ obs' = [obs EXCEPT !.last = "releaseElsewhere"]
    /\ UNCHANGED <<mounted, loading, exited, view, notes, activeNote, theme, lsTheme,
                   showHidden, searchQuery, deletedNote, undoTimer, lsData, fsData, fsWrites>>
    /\ UNCHANGED <<edVars, envVars>>

(* a touch that was held long enough for the timeout is released and the
   browser sends no click after it *)
NoClick ==
    /\ Running /\ press # None /\ ~press[1].down /\ press[1].toggled > 0
    /\ press' = None
    /\ obs' = [obs EXCEPT !.last = "noClick"]
    /\ UNCHANGED <<mounted, loading, exited, view, notes, activeNote, theme, lsTheme,
                   showHidden, searchQuery, deletedNote, undoTimer, lsData, fsData, fsWrites>>
    /\ UNCHANGED <<edVars, envVars>>

(* the list view with the pointer on the cards, the clock in steps of half
   the autosave delay *)
InitPress ==
    /\ native = FALSE /\ io = "prompt" /\ order = "gesture"
    /\ lsData \in HomeStores
    /\ fsData = None /\ fsWrites = <<>> /\ lsTheme = None
    /\ ConstructedState(MaxOps, Step)

NextPress ==
    \/ LoadData
    \/ SetShowHidden
    \/ \E i \in 1..Len(notes) : StartPress(i)
    \/ PressTimerFire
    \/ EndPress
    \/ ReleaseElsewhere
    \/ OnClick
    \/ NoClick
    \/ HandleBackToHome
    \/ Tick

SpecPress == InitPress /\ [][NextPress]_vars

----------------------------------------------------------------------------
(* Drawing on a media block *)

(* a pen stroke over the left half of the canvas *)
StoredStroke ==
    DrawingPath(<<Point(0), Point(CanvasWidth \div 2)>>, NEON_COLORS[2], brushSize)

(* a note with a text and an image that has a stroke on it *)
SeedPhoto ==
    Note(1, "Trip", 100, 200,
         <<Block(2, "text", "Paris was great"),
           [id |-> 3, type |-> "image", content |-> "img", drawings |-> <<StoredStroke>>]>>,
         FALSE, FALSE, "dark")

(* a note with a video stored without drawings, and a text *)
SeedClip ==
    Note(1, "Trip", 100, 200,
         <<[id |-> 2, type |-> "video", content |-> "img"], Block(3, "text", "")>>,
         FALSE, FALSE, "dark")

SeedDrawStores == {Some(JSONstringify(<<SeedPhoto>>)), Some(JSONstringify(<<SeedClip>>))}

InitDraw == StartFrom(SeedDrawStores, MaxOps, DEBOUNCE_MS)

NextDraw ==
    \/ LoadData
    \/ \E i \in 1..Len(notes) : HandleSelectNote(i)
    \/ \E id \in Ids(edBlocks) : OpenCanvas(id)
    \/ \E id \in DOMAIN canvases, x \in PointerXs : StartDrawing(id, Point(x))
    \/ \E id \in DOMAIN canvases, x \in PointerXs : Draw(id, Point(x))
    \/ \E id \in DOMAIN canvases : StopDrawing(id)
    \/ \E id \in DOMAIN canvases, tool \in {"pen", "eraser"} : SetTool(id, tool)
    \/ \E id \in DOMAIN canvases, k \in 1..Len(NEON_COLORS) :
          SetSelectedColor(id, NEON_COLORS[k])
    \/ \E id \in DOMAIN canvases : UndoPath(id)
    \/ \E id \in DOMAIN canvases : HandleSave(id)
    \/ \E id \in DOMAIN canvases : CancelDrawing(id)
    \/ AutosaveFire
    \/ Tick

SpecDraw == InitDraw /\ [][NextDraw]_vars

----------------------------------------------------------------------------
(* Rendering stored drawings *)

(* the strokes a stored path may be: left half, right half, the whole line *)
StoredPoints ==
    {<<Point(0), Point(CanvasWidth \div 2)>>,
     <<Point(CanvasWidth \div 2), Point(CanvasWidth)>>,
     <<Point(0), Point(CanvasWidth \div 2), Point(CanvasWidth)>>}

(* a stored path: a stroke with a pen or the eraser, or a pen's dot *)
StoredPaths ==
    {DrawingPath(points, color, brushSize) :
        points \in StoredPoints, color \in {NEON_COLORS[1], NEON_COLORS[2], Eraser}}
    \cup {DrawingPath(<<Point(CanvasWidth \div 2)>>, NEON_COLORS[1], brushSize)}

(* the lists of up to n stored paths *)
RECURSIVE PathLists(_)
PathLists(n) ==
    IF n = 0 THEN {<<>>}
    ELSE LET shorter == PathLists(n - 1)
         IN shorter \cup {Append(list, path) : list \in shorter, path \in StoredPaths}

SeedDrawn(drawings) ==
    Note(1, "Trip", 100, 200,
         <<[id |-> 2, type |-> "image", content |-> "img", drawings |-> drawings]>>,
         FALSE, FALSE, "dark")

SeedRenderStores ==
    {Some(JSONstringify(<<SeedDrawn(list)>>)) : list \in PathLists(MaxPaths + 1)}

InitRender == StartFrom(SeedRenderStores, MaxOps, DEBOUNCE_MS)

NextRender ==
    \/ LoadData
    \/ \E i \in 1..Len(notes) : HandleSelectNote(i)
    \/ \E id \in Ids(edBlocks) : OpenCanvas(id)
    \/ \E id \in DOMAIN canvases : UndoPath(id)
    \/ \E id \in DOMAIN canvases : HandleSave(id)
    \/ \E id \in DOMAIN canvases : CancelDrawing(id)

SpecRender == InitRender /\ [][NextRender]_vars

----------------------------------------------------------------------------
(* The editor's block handlers called in any order: a tap is taken also
   while dragItem holds the index of a drag that has not ended *)

InitOrder ==
    /\ native = TRUE /\ io = "prompt" /\ order = "any"
    /\ lsData \in SeedBlockStores
    /\ fsData = lsData /\ fsWrites = <<>> /\ lsTheme = None
    /\ ConstructedState(MaxOps, DEBOUNCE_MS)

NextOrder ==
    \/ LoadData
    \/ \E i \in 1..Len(notes) : HandleSelectNote(i)
    \/ \E type \in BlockTypes : AddBlock(type)
    \/ \E id \in 1..(nextId - 1), c \in Contents : UpdateBlock(id, c)
    \/ \E id \in 1..(nextId - 1) : DeleteBlock(id)
    \/ RestoreBlock
    \/ \E p \in 0..MaxBlocks : HandleDragStart(p)
    \/ \E p \in 0..MaxBlocks : HandleDragEnter(p)
    \/ HandleDragEnd
    \/ \E i \in 0..MaxBlocks, direction \in {-1, 1} : MoveBlock(i, direction)

SpecOrder == InitOrder /\ [][NextOrder]_vars

(* the same program, observed at half the debounce period, one user event fewer *)
InitFine == Start(MaxOps - 1, Step)

SpecFine == InitFine /\ [][Next]_vars

----------------------------------------------------------------------------
(* Properties *)

SinceChange == now - obs.changeAt

(* the autosave callback that is due has run *)
CallbackRan == saveTimer # 0

EmptyNewNote == activeNote = None /\ edBlocks = <<>> /\ edTitle = ""

(* what the tracked changes of the current run have committed so far, given
   the number of commits the run is to produce once it has been quiet for
   the debounce period *)
DebounceCommits(expected) ==
    (view = "edit" /\ obs.everChanged) =>
       /\ SinceChange < DEBOUNCE_MS => obs.commits = 0
       /\ (SinceChange >= DEBOUNCE_MS /\ CallbackRan) => obs.commits = expected
       /\ obs.commits >= 1 =>
             /\ DraftOf(obs.saved[1]) = Draft
             /\ obs.saved[1].updatedAt = obs.changeAt + DEBOUNCE_MS

(* C1, as claimed: while the editor stays open, a run of tracked changes, each
   less than 800 ms after the one before, produces exactly one commit, 800 ms
   after the last change of the run and carrying the state as of that change;
   so changes 800 ms or more apart produce one commit each. *)
C1_DebounceOneCommitPerRun == DebounceCommits(1)

(* C1, amended: the same, except that a run which leaves an editor that was
   opened without a note with no blocks and an empty title produces no commit. *)
C1_DebounceOneCommitUnlessEmptyNew ==
    DebounceCommits(IF EmptyNewNote THEN 0 ELSE 1)

(* C1, witness: a run of two changes made at different times has been
   committed once *)
C1_Witness ==
    /\ view = "edit" /\ obs.run >= 2 /\ obs.changeAt > obs.runStart
    /\ SinceChange >= DEBOUNCE_MS /\ obs.commits = 1

(* C2: the editor of a new note generates the note's id at most once: all
   its commits carry the same id, and the collection holds one note for the
   session. *)
C2_NewNoteOneId ==
    (view = "edit" /\ activeNote = None) =>
       /\ Cardinality(obs.sessionIds) <= 1
       /\ Cardinality({i \in 1..Len(notes) : notes[i].id \in obs.sessionIds}) <= 1

(* C3: a tracked change that was waiting for its autosave when the user left
   the editor is not dropped: on leaving, its timer is still pending or the
   collection already holds the change. *)
C3_PendingChangeSavedOnLeave ==
    (obs.last \in {"handleBackToHome", "backButton"} /\ obs.left # None) =>
       \/ saveTimer # NoTimer
       \/ \E i \in 1..Len(notes) : DraftOf(notes[i]) = obs.left[1]

(* the autosave callback runs in this step *)
DebounceFires == view = "edit" /\ saveTimer = 0 /\ saveTimer' = NoTimer

(* C4: a debounce firing in an editor opened without a note, with no blocks
   and an empty title, commits nothing; and an editor opened for a new note in
   which nothing was changed commits nothing, nor does closing it. *)
C4_EmptyNewNoteNeverWritten ==
    /\ [][(DebounceFires /\ EmptyNewNote) =>
             (notes' = notes /\ lsData' = lsData)]_vars
    /\ [][(view = "edit" /\ activeNote = None /\ ~obs.everChanged /\ ~obs'.everChanged
           /\ obs'.last # "handleUndoDelete") => notes' = notes]_vars

(* C4, witness: the debounce has fired in the untouched editor of a new note *)
C4_Witness ==
    /\ view = "edit" /\ EmptyNewNote /\ ~obs.everChanged
    /\ saveTimer = NoTimer /\ SinceChange >= DEBOUNCE_MS

NoteWithId(ns, id) == ns[IndexOfId(ns, id)]

(* C5: a commit of a persisted note whose editor state equals the stored note
   keeps the collection's size and the note's id, createdAt, title, flags and
   blocks; and no step changes the createdAt of a note of the collection. *)
C5_SaveIdempotent ==
    /\ [][(DebounceFires /\ activeNote # None
           /\ activeNote[1].id \in Ids(notes)
           /\ DraftOf(NoteWithId(notes, activeNote[1].id)) = Draft) =>
             /\ Len(notes') = Len(notes)
             /\ \A i \in 1..Len(notes) :
                   /\ notes'[i].id = notes[i].id
                   /\ notes'[i].createdAt = notes[i].createdAt
                   /\ DraftOf(notes'[i]) = DraftOf(notes[i])]_vars
    /\ [][\A i \in 1..Len(notes), j \in 1..Len(notes') :
             notes'[j].id = notes[i].id =>
                notes'[j].createdAt = notes[i].createdAt]_vars

(* C5, witness: a persisted note has been committed unchanged twice, the
   second time with a later updatedAt *)
C5_Witness ==
    /\ obs.unchangedSaves >= 2 /\ obs.last = "autosaveCommit"
    /\ obs.saved[1].updatedAt > obs.saved[1].createdAt + DEBOUNCE_MS

(* C6: from an empty collection, creating a note, setting its title to
   "Trip", adding one text block, typing "Paris was great" into it and letting
   autosave commit leaves exactly one persisted note, with that title, that one
   block content, not pinned and not hidden. *)
C6_TripScenario ==
    (obs.script = "typed" /\ saveTimer = NoTimer) =>
       /\ lsData # None
       /\ LET loaded == JSONparse(lsData[1]) IN
          /\ Len(loaded) = 1
          /\ loaded[1].title = "Trip"
          /\ Len(loaded[1].blocks) = 1
          /\ loaded[1].blocks[1].type = "text"
          /\ loaded[1].blocks[1].content = "Paris was great"
          /\ loaded[1].isPinned = FALSE
          /\ loaded[1].isHidden = FALSE

(* C7: no two notes of the collection have the same id. *)
C7_NoteIdsUnique ==
    \A i, j \in 1..Len(notes) : i # j => notes[i].id # notes[j].id

(* C7, witness: a note that was committed by the editor, then deleted, is
   back in the collection by undo, next to another note *)
C7_Witness ==
    /\ obs.last = "handleUndoDelete" /\ Len(notes) >= 2
    /\ obs.ndel # None /\ obs.ndel[1].note.updatedAt > StartTime

BlockCallbacksRan == \A t \in blockTimers : t.left # 0

LatestDeletion == obs.del[1]

(* C8: a deleted block whose undo is not invoked within 4 seconds leaves the
   buffer empty and stays out of the list; within 4 seconds, with no list edit
   since the deletion, undo is there and puts the block back where it was, so
   that the list equals the list before the deletion. *)
C8_BlockDeleteUndo ==
    (view = "edit" /\ obs.del # None) =>
       /\ (~LatestDeletion.restored /\ now - LatestDeletion.at >= BLOCK_UNDO_MS
           /\ BlockCallbacksRan) =>
             (deletedBlock = None /\ LatestDeletion.id \notin Ids(edBlocks))
       /\ (~LatestDeletion.restored /\ ~LatestDeletion.edited
           /\ now - LatestDeletion.at < BLOCK_UNDO_MS) =>
             /\ deletedBlock # None
             /\ restoreBlock(edBlocks, deletedBlock[1]) = LatestDeletion.before
       /\ (LatestDeletion.restored /\ ~LatestDeletion.edited) =>
             /\ edBlocks = LatestDeletion.before
             /\ deletedBlock = None

(* C9: the expiry timer of a deletion that was undone never clears the buffer
   of a later deletion: until 4 seconds have passed since the latest deletion,
   and unless it was undone, the buffer holds that deletion. *)
C9_UndoAvailableFourSeconds ==
    (view = "edit" /\ obs.del # None /\ ~LatestDeletion.restored
     /\ now - LatestDeletion.at < BLOCK_UNDO_MS) =>
       /\ deletedBlock # None
       /\ deletedBlock[1].block.id = LatestDeletion.id
       /\ deletedBlock[1].index = LatestDeletion.index

LatestNoteDeletion == obs.ndel[1]

(* C10: the note undo slot holds the latest deleted note for 5 seconds from
   its deletion, also when it replaced another note in the slot; undo puts the
   note back unchanged, empties the slot and cancels the timer; after 5 seconds
   without undo the slot is empty and the note stays out of the collection. *)
C10_NoteUndoSlot ==
    obs.ndel # None =>
       /\ (~LatestNoteDeletion.restored /\ now - LatestNoteDeletion.at < NOTE_UNDO_MS) =>
             /\ deletedNote = Some(LatestNoteDeletion.note)
             /\ undoTimer = NOTE_UNDO_MS - (now - LatestNoteDeletion.at)
             /\ LatestNoteDeletion.note.id \notin Ids(notes)
       /\ obs.last = "handleUndoDelete" =>
             /\ LatestNoteDeletion.restored
             /\ \E i \in 1..Len(notes) : notes[i] = LatestNoteDeletion.note
             /\ deletedNote = None
             /\ undoTimer = NoTimer
       /\ (~LatestNoteDeletion.restored /\ now - LatestNoteDeletion.at >= NOTE_UNDO_MS
           /\ undoTimer # 0) =>
             /\ deletedNote = None
             /\ undoTimer = NoTimer
             /\ LatestNoteDeletion.note.id \notin Ids(notes)

(* C10, witness: a note that replaced another in the slot is still there
   5 seconds after the deletion of the one it replaced *)
C10_Witness ==
    /\ obs.ndel # None /\ LatestNoteDeletion.prevAt >= 0
    /\ LatestNoteDeletion.at > LatestNoteDeletion.prevAt
    /\ now - LatestNoteDeletion.prevAt >= NOTE_UNDO_MS
    /\ deletedNote = Some(LatestNoteDeletion.note)

Positions == 0..MaxBlocks

(* C11: during and after a drag gesture the list equals the list at
   drag-start with moveElement(list, from, to) applied for every crossing in
   turn, from being the start index and then the previous target; a drag-enter
   on the tracked index changes nothing. *)
C11_DragReorderComposes ==
    /\ []((view = "edit" /\ obs.drag # None) =>
             /\ edBlocks = obs.drag[1].expect
             /\ dragItem # None => dragItem = Some(obs.drag[1].tracked))
    /\ [][\A p \in Positions :
             (dragItem = Some(p) /\ HandleDragEnter(p)) =>
                (edBlocks' = edBlocks /\ dragItem' = dragItem
                 /\ saveTimer' = saveTimer /\ obs'.drag = obs.drag)]_vars

(* C11, witness: a block of a three-block list has crossed two others and is
   not where it started *)
C11_Witness ==
    /\ view = "edit" /\ obs.drag # None
    /\ Len(obs.drag[1].list) = 3 /\ obs.drag[1].crossings >= 2
    /\ obs.drag[1].from # obs.drag[1].tracked
    /\ edBlocks # obs.drag[1].list

(* C12: moveBlock(index, direction) swaps the block at index with the one at
   index + direction and keeps every other position; across either end of the
   list it changes nothing. *)
C12_MoveBlockSwapsNeighbours ==
    [][\A index \in Positions, direction \in {-1, 1} :
          MoveBlock(index, direction) =>
             LET newIndex == index + direction IN
             IF newIndex < 0 \/ newIndex >= Len(edBlocks)
             THEN edBlocks' = edBlocks
             ELSE /\ Len(edBlocks') = Len(edBlocks)
                  /\ edBlocks'[index + 1] = edBlocks[newIndex + 1]
                  /\ edBlocks'[newIndex + 1] = edBlocks[index + 1]
                  /\ \A k \in 1..Len(edBlocks) :
                        k \notin {index + 1, newIndex + 1} =>
                           edBlocks'[k] = edBlocks[k]]_vars

(* C12, witness: a move across the end of a three-block list, after a move
   that changed the order *)
C12_Witness ==
    /\ view = "edit" /\ obs.last = "moveBlock: at the boundary"
    /\ Len(edBlocks) = 3 /\ obs.changed
    /\ activeNote # None /\ edBlocks # activeNote[1].blocks

AnyId == 1..UnknownId

(* C13: updateBlock, updateBlockDrawings and deleteBlock called with an id no
   block has leave the block list and the block undo buffer as they are;
   handleDeleteNote called with an id no note has leaves the collection, the
   note undo slot, its timer and the view as they are. *)
C13_UnknownIdNoOp ==
    /\ [][\A id \in AnyId :
             (/\ id \notin Ids(edBlocks)
              /\ \/ \E c \in Contents : UpdateBlock(id, c)
                 \/ \E d \in Drawings : UpdateBlockDrawings(id, d)
                 \/ DeleteBlock(id)) =>
                (edBlocks' = edBlocks /\ deletedBlock' = deletedBlock)]_vars
    /\ [][\A id \in AnyId :
             (id \notin Ids(notes) /\ HandleDeleteNote(id)) =>
                (notes' = notes /\ deletedNote' = deletedNote
                 /\ undoTimer' = undoTimer /\ view' = view)]_vars

(* C13, witness: deleteBlock was called with an unknown id while the undo
   buffer held a block *)
C13_Witness ==
    /\ view = "edit" /\ obs.last = "deleteBlock: no such id"
    /\ deletedBlock # None /\ edBlocks # <<>>

LoadCompleted == mounted /\ ~loading /\ obs.last = "loadData"

AtBoot == obs.boot[1]

Parsable(content) == Truthy(content) /\ content[1].kind = "json"

(* C14: on the native platform, when the read of the device file fails or
   gives nothing, the collection after load is the one the previous session
   left in local storage. *)
C14_FallbackToLocalStorage ==
    (LoadCompleted /\ native /\ ~Truthy(AtBoot.file) /\ Parsable(AtBoot.ls)) =>
       notes = JSONparse(AtBoot.ls[1])

(* C15: on the native platform, once no write is in flight, the device file
   and local storage both hold the serialization of the collection in
   memory. *)
C15_StoresInSync ==
    (native /\ mounted /\ ~loading /\ fsWrites = <<>>) =>
       /\ lsData = Some(JSONstringify(notes))
       /\ fsData = Some(JSONstringify(notes))

(* C16: a write to the device file that fails changes nothing in memory, and
   stops nothing; local storage holds the collection in memory after every
   change, whatever happens to the writes of the file. *)
C16_WriteFailureSwallowed ==
    /\ [][\A i \in 1..Len(fsWrites) :
             FsWriteFail(i) =>
                /\ notes' = notes /\ lsData' = lsData /\ fsData' = fsData
                /\ UNCHANGED <<mounted, exited, view, activeNote, theme>>]_vars
    /\ [](mounted => lsData = Some(JSONstringify(notes)))

(* C16, witness: the write of a changed collection has failed; the file
   holds another collection than memory and local storage *)
C16_Witness ==
    /\ obs.last = "writeFile: failed" /\ fsWrites = <<>>
    /\ notes # <<>>
    /\ fsData # Some(JSONstringify(notes))
    /\ lsData = Some(JSONstringify(notes))

(* C17: when a stored document does not parse and no store supplies one
   that does, load ends with an empty collection, the App up and showing the
   list. *)
C17_MalformedIsNoData ==
    (/\ LoadCompleted
     /\ ~Parsable(AtBoot.ls)
     /\ native => ~Parsable(AtBoot.file)
     /\ Some(Garbled) \in {AtBoot.ls, AtBoot.file}) =>
       /\ notes = <<>>
       /\ ~exited /\ view = "home"
       /\ lsData = Some(JSONstringify(<<>>))

(* C17, witness: the web platform has loaded a local-storage entry that does
   not parse *)
C17_Witness ==
    LoadCompleted /\ ~native /\ AtBoot.ls = Some(Garbled) /\ notes = <<>>

RoundTrips(ns) == JSONparse(JSONstringify(ns)) = ns

StoredDocuments ==
    {c[1] : c \in {x \in {lsData, fsData, AtBoot.ls, AtBoot.fs} : Parsable(x)}}
    \cup {fsWrites[i] : i \in 1..Len(fsWrites)}

(* C18: the collection in memory, the empty one included, is what its
   serialization parses to, field for field and in order; and so is the
   collection of every document in the stores, whose serialization is the
   document again. *)
C18_RoundTrip ==
    (mounted /\ ~loading) =>
       /\ RoundTrips(notes)
       /\ JSONparse(lsData[1]) = notes
       /\ \A doc \in StoredDocuments :
             /\ RoundTrips(JSONparse(doc))
             /\ JSONstringify(JSONparse(doc)) = doc

(* C18, witness: a note without its optional fields was loaded from the
   file, pinned, and written to local storage next to nothing else *)
C18_Witness ==
    /\ mounted /\ ~loading /\ obs.last = "handleTogglePinNote"
    /\ Len(notes) = 1 /\ notes[1].isPinned
    /\ "isHidden" \notin DOMAIN notes[1]
    /\ "drawings" \notin DOMAIN notes[1].blocks[1]
    /\ JSONparse(lsData[1]) = notes

(* C19: after load the theme is the persisted identifier when that is dark,
   pink or royal, and dark when it is missing or anything else; on either
   platform. *)
C19_ThemeOnStartup ==
    LoadCompleted =>
       theme = (IF AtBoot.theme # None /\ AtBoot.theme[1] \in {"dark", "pink", "royal"}
                THEN AtBoot.theme[1] ELSE "dark")

(* the characters a and b are one letter, in either case *)
SameLetter(a, b) == a = b \/ <<a, b>> \in Letters \/ <<b, a>> \in Letters

(* q is found in str at some offset, letter for letter, whatever the case *)
SubstringIgnoringCase(q, str) ==
    \E off \in 0..(Len(str) - Len(q)) :
       \A k \in 1..Len(q) : SameLetter(q[k], str[off + k])

FoundIn(q, n) ==
    \/ SubstringIgnoringCase(q, n.title)
    \/ \E j \in 1..Len(n.blocks) :
          n.blocks[j].type = "text" /\ SubstringIgnoringCase(q, n.blocks[j].content)

Blank(q) == \A k \in 1..Len(q) : q[k] \in WhiteSpace

TitlesOf(s) == [k \in 1..Len(s) |-> s[k].title]

AlphaBetaGamma ==
    {TitlesOf(notes)[k] : k \in 1..Len(notes)}
       = {HomeAlpha.title, HomeBeta.title, HomeGamma.title}

ExampleReturnsBeta ==
    (/\ AlphaBetaGamma /\ ~showHidden
     /\ \A k \in 1..Len(notes) : ~IsHidden(notes[k])
     /\ searchQuery \in {<<"b">>, <<"B">>}) =>
       TitlesOf(filteredNotes) = <<HomeBeta.title>>

(* C20, as stated: a note passes the search test exactly when the query is,
   whatever the case, a substring of its title or of the content of one of
   its text blocks; the empty query passes every note; with titles Alpha,
   beta, Gamma the queries b and B return exactly beta. *)
C20_SearchIsSubstringMatch ==
    (mounted /\ view = "home") =>
       /\ \A k \in 1..Len(notes) :
             matchesSearch(notes[k]) <=> FoundIn(searchQuery, notes[k])
       /\ ExampleReturnsBeta

(* C20, amended: a query that is empty or all white space passes every
   note; any other query passes exactly the notes in whose title or
   text-block content it is found, white space included, whatever the case;
   with titles Alpha, beta, Gamma the queries b and B return exactly beta. *)
C20_SearchIsSubstringMatchUnlessBlank ==
    (mounted /\ view = "home") =>
       /\ \A k \in 1..Len(notes) :
             matchesSearch(notes[k]) <=>
                (Blank(searchQuery) \/ FoundIn(searchQuery, notes[k]))
       /\ ExampleReturnsBeta

(* C20, witness: the query B, typed above Alpha, beta and Gamma after a pin
   was toggled, leaves beta alone *)
C20_Witness ==
    /\ mounted /\ view = "home" /\ AlphaBetaGamma /\ ~showHidden
    /\ searchQuery = <<"B">> /\ obs.last = "setSearchQuery"
    /\ \E k \in 1..Len(notes) : notes[k].isPinned
    /\ TitlesOf(filteredNotes) = <<HomeBeta.title>>

(* C21: with an empty query the default view and the hidden view of one
   collection have no note in common and together hold every note of it; the
   hidden view holds exactly the notes whose isHidden flag is set, a note
   without the flag being in the default view. *)
C21_VisibilityPartition ==
    /\ [][(SetShowHidden /\ searchQuery = <<>>) =>
             /\ Ids(filteredNotes) \cap Ids(filteredNotes') = {}
             /\ Ids(filteredNotes) \cup Ids(filteredNotes') = Ids(notes)
             /\ Len(filteredNotes) + Len(filteredNotes') = Len(notes)]_vars
    /\ []((mounted /\ view = "home" /\ searchQuery = <<>>) =>
             filteredNotes =
                SelectSeq(notes, LAMBDA n :
                    showHidden <=> ("isHidden" \in DOMAIN n /\ n.isHidden = TRUE)))

(* C21, witness: the hidden view was just opened on a collection with a
   hidden note, a note that is not hidden and a note without the flag *)
C21_Witness ==
    /\ obs.last = "setShowHidden" /\ showHidden /\ searchQuery = <<>>
    /\ filteredNotes # <<>> /\ Len(filteredNotes) < Len(notes)
    /\ \E k \in 1..Len(notes) : "isHidden" \notin DOMAIN notes[k]
    /\ \E k \in 1..Len(notes) : "isHidden" \in DOMAIN notes[k] /\ ~notes[k].isHidden

PositionIn(s, id) == CHOOSE k \in 1..Len(s) : s[k].id = id

(* C22: in the displayed list every pinned note precedes every unpinned
   one; within a group the notes are in descending updatedAt, and notes of
   one updatedAt are in the order of the collection; the displayed list holds
   exactly the filtered notes, each once and as it is stored. *)
C22_ListOrder ==
    (mounted /\ view = "home") =>
       /\ \A i, j \in 1..Len(sortedNotes) :
             i < j =>
                LET a == sortedNotes[i]
                    b == sortedNotes[j]
                IN /\ ~(b.isPinned /\ ~a.isPinned)
                   /\ a.isPinned = b.isPinned => a.updatedAt >= b.updatedAt
                   /\ (a.isPinned = b.isPinned /\ a.updatedAt = b.updatedAt) =>
                         PositionIn(notes, a.id) < PositionIn(notes, b.id)
       /\ Len(sortedNotes) = Len(filteredNotes)
       /\ \A k \in 1..Len(filteredNotes) :
             \E i \in 1..Len(sortedNotes) : sortedNotes[i] = filteredNotes[k]

(* C22, witness: a pinned older note is shown before two notes of one
   updatedAt, which keep the order of the collection, and the list is not in
   the order of the collection *)
C22_Witness ==
    /\ mounted /\ view = "home" /\ Len(sortedNotes) = 3
    /\ sortedNotes # filteredNotes
    /\ sortedNotes[1].isPinned /\ ~sortedNotes[2].isPinned
    /\ sortedNotes[1].updatedAt < sortedNotes[2].updatedAt
    /\ sortedNotes[2].updatedAt = sortedNotes[3].updatedAt

(* the path a release makes of the buffer of canvas c *)
StrokeOf(c) ==
    [points |-> c.currentPoints,
     color |-> IF c.tool = "eraser" THEN "eraser" ELSE c.selectedColor,
     width |-> brushSize]

AllButLast(s) == [k \in 1..(Len(s) - 1) |-> s[k]]

BlockWithId(blocks, id) == blocks[CHOOSE k \in 1..Len(blocks) : blocks[k].id = id]

(* C23: a release with two or more points in the buffer appends them as one
   path, in the selected colour or as an eraser path when the eraser is the
   tool, after the paths there were; a release with fewer points leaves the
   paths as they are; either way the buffer is empty afterwards; the buffer
   holds the point of the last pointer-down and the moves since; a move or a
   release with no pointer down changes nothing. *)
C23_StrokeCommit ==
    [][\A id \in DOMAIN canvases :
          LET c == canvases[id] IN
          /\ (StopDrawing(id) /\ c.isDrawing) =>
                /\ canvases'[id].paths =
                      (IF Len(c.currentPoints) >= 2
                       THEN c.paths \o <<StrokeOf(c)>> ELSE c.paths)
                /\ canvases'[id].currentPoints = <<>>
                /\ ~canvases'[id].isDrawing
          /\ (StopDrawing(id) /\ ~c.isDrawing) => canvases' = canvases
          /\ \A x \in PointerXs :
                /\ (Draw(id, Point(x)) /\ ~c.isDrawing) => canvases' = canvases
                /\ (Draw(id, Point(x)) /\ c.isDrawing) =>
                      /\ canvases'[id].currentPoints = c.currentPoints \o <<Point(x)>>
                      /\ canvases'[id].paths = c.paths
                /\ StartDrawing(id, Point(x)) =>
                      /\ canvases'[id].currentPoints = <<Point(x)>>
                      /\ canvases'[id].paths = c.paths]_vars

(* C23, witness: an eraser stroke of two points or more was committed after
   another path *)
C23_Witness ==
    /\ obs.last = "stopDrawing"
    /\ \E id \in DOMAIN canvases :
          LET p == canvases[id].paths IN
          /\ Len(p) >= 2 /\ p[Len(p)].color = "eraser" /\ Len(p[Len(p)].points) >= 2
          /\ canvases[id].currentPoints = <<>> /\ ~canvases[id].isDrawing

(* C24: undo takes the last path off the list, whatever its colour, and
   leaves the others as they are; on an empty list it changes nothing; and
   the only steps that change the list of an open canvas are undo and the
   release that commits the stroke in the buffer. *)
C24_UndoRemovesLastPath ==
    [][\A id \in DOMAIN canvases :
          LET c == canvases[id] IN
          /\ UndoPath(id) =>
                /\ canvases'[id].paths =
                      (IF c.paths = <<>> THEN <<>> ELSE AllButLast(c.paths))
                /\ canvases'[id] = [c EXCEPT !.paths = canvases'[id].paths]
          /\ (id \in DOMAIN canvases' /\ canvases'[id].paths # c.paths) =>
                \/ UndoPath(id)
                \/ /\ StopDrawing(id) /\ c.isDrawing
                   /\ canvases'[id].paths = c.paths \o <<StrokeOf(c)>>]_vars

(* C24, witness: an eraser path drawn in this session was undone and the
   stored path is what is left *)
C24_Witness ==
    /\ obs.last = "undo"
    /\ \E id \in DOMAIN canvases :
          /\ obs.draw[id].strokes >= 1 /\ obs.draw[id].undos = 1
          /\ canvases[id].tool = "eraser"
          /\ canvases[id].paths = obs.draw[id].initial
          /\ canvases[id].paths # <<>>

CanvasStepButSave ==
    \E id \in Ids(edBlocks) :
       \/ OpenCanvas(id) \/ StopDrawing(id) \/ UndoPath(id) \/ CancelDrawing(id)
       \/ \E x \in PointerXs : StartDrawing(id, Point(x)) \/ Draw(id, Point(x))
       \/ \E tool \in {"pen", "eraser"} : SetTool(id, tool)
       \/ \E k \in 1..Len(NEON_COLORS) : SetSelectedColor(id, NEON_COLORS[k])

(* C25: no step of a drawing session but Save changes the block list, the
   collection or the stores; while a canvas is open and at the moment it is
   cancelled its block holds the drawings it held when the canvas was opened,
   and, no canvas having been saved since, the block list is the one of that
   moment. *)
C25_CancelLeavesBlocks ==
    /\ [][CanvasStepButSave =>
             UNCHANGED <<edBlocks, edTitle, saveTimer, notes, activeNote, lsData, fsData>>]_vars
    /\ [][\A id \in DOMAIN canvases :
             CancelDrawing(id) =>
                /\ edBlocks' = obs.draw[id].blocks
                /\ id \notin DOMAIN canvases']_vars
    /\ [](\A id \in DOMAIN canvases :
             /\ DrawingsOf(BlockWithId(edBlocks, id)) = obs.draw[id].initial
             /\ (\A b \in DOMAIN obs.draw : ~obs.draw[b].saved) =>
                   edBlocks = obs.draw[id].blocks)

(* C25, witness: a canvas with a stroke drawn and a path undone was
   cancelled, and its block has the drawings it had *)
C25_Witness ==
    /\ obs.last = "onCancel"
    /\ \E id \in DOMAIN obs.draw :
          /\ id \notin DOMAIN canvases
          /\ obs.draw[id].strokes >= 1 /\ obs.draw[id].undos >= 1
          /\ obs.draw[id].expect # obs.draw[id].initial
          /\ edBlocks = obs.draw[id].blocks

(* C26: Save hands over the paths the canvas was opened with, the strokes
   committed since appended and the undos applied, in the order they
   happened; the block of the canvas gets them as its drawings, its other
   fields, the other blocks and the length of the list staying as they
   are. *)
C26_SaveHandsOverPaths ==
    [][\A id \in DOMAIN canvases :
          HandleSave(id) =>
             /\ canvases[id].paths = obs.draw[id].expect
             /\ Len(edBlocks') = Len(edBlocks)
             /\ \A k \in 1..Len(edBlocks) :
                   IF edBlocks[k].id = id
                   THEN /\ edBlocks'[k].drawings = obs.draw[id].expect
                        /\ \A f \in DOMAIN edBlocks[k] \ {"drawings"} :
                              edBlocks'[k][f] = edBlocks[k][f]
                        /\ DOMAIN edBlocks'[k] = DOMAIN edBlocks[k] \cup {"drawings"}
                   ELSE edBlocks'[k] = edBlocks[k]]_vars

(* C26, witness: a canvas opened on a block stored without drawings was
   saved after two strokes and an undo, and the block holds the one stroke
   left *)
C26_Witness ==
    /\ obs.last = "handleSave"
    /\ \E id \in DOMAIN obs.draw :
          /\ obs.draw[id].saved /\ obs.draw[id].initial = <<>>
          /\ obs.draw[id].strokes >= 2 /\ obs.draw[id].undos = 1
          /\ "drawings" \notin DOMAIN BlockWithId(obs.draw[id].blocks, id)
          /\ Len(BlockWithId(edBlocks, id).drawings) = 1
          /\ edBlocks # obs.draw[id].blocks

(* the paths of a list that paint or clear the pixel, by position *)
Covering(paths, pixel, eraserScale) ==
    {k \in 1..Len(paths) :
        /\ Len(paths[k].points) >= 2
        /\ \E i \in 1..(Len(paths[k].points) - 1) :
              InStroke(pixel, paths[k].points[i], paths[k].points[i + 1],
                       lineWidth(paths[k], eraserScale))}

(* what the last path over each pixel leaves there *)
LastPathWins(paths, eraserScale) ==
    [p \in Pixels |->
        LET over == Covering(paths, p, eraserScale)
        IN IF over = {} THEN "transparent"
           ELSE LET top == CHOOSE k \in over : \A j \in over : j <= k
                IN IF paths[top].color = "eraser" THEN "transparent"
                   ELSE paths[top].color]

MediaBlocksShown ==
    {k \in 1..Len(edBlocks) :
        /\ edBlocks[k].type # "text" /\ edBlocks[k].id \notin DOMAIN canvases
        /\ "drawings" \in DOMAIN edBlocks[k]}

(* C27: the surface is what stroking the paths in list order leaves on a
   cleared one: each pixel has the colour of the last pen path over it that
   no later eraser path covers, so an eraser path clears what earlier paths
   painted where it covers them and nothing of a later path; on the drawing
   canvas and on the read-only canvas of a block alike.  The eraser paths
   stay in the list: Save stores them with the others. *)
C27_EraserOrdering ==
    /\ [](InEditor =>
            /\ \A id \in DOMAIN canvases :
                  renderCanvas(canvases[id].paths) = LastPathWins(canvases[id].paths, 4)
            /\ \A k \in MediaBlocksShown :
                  renderDrawings(edBlocks[k].drawings) = LastPathWins(edBlocks[k].drawings, 2))
    /\ [][\A id \in DOMAIN canvases :
             HandleSave(id) =>
                BlockWithId(edBlocks', id).drawings = canvases[id].paths]_vars

(* C27, witness: a canvas shows a pen path, an eraser path over part of it
   and a later pen path over the erased part: the first is gone where the
   eraser went and the last is whole *)
C27_Witness ==
    /\ InEditor
    /\ \E id \in DOMAIN canvases :
          LET paths == canvases[id].paths
              surface == renderCanvas(paths)
          IN /\ Len(paths) = 3
             /\ paths[1].color = NEON_COLORS[1]
             /\ paths[2].color = Eraser
             /\ paths[3].color = NEON_COLORS[2]
             /\ \A k \in 1..3 : Len(paths[k].points) >= 2
             /\ \E p \in Pixels : Covering(paths, p, 4) = {1, 2} /\ surface[p] = "transparent"
             /\ \E p \in Pixels : Covering(paths, p, 4) = {1} /\ surface[p] = paths[1].color
             /\ \E p \in Pixels : Covering(paths, p, 4) = {1, 2, 3}
             /\ \A p \in Pixels : 3 \in Covering(paths, p, 4) => surface[p] = paths[3].color

(* C28: addBlock(type, content) makes the block list one longer; the new
   block is the last one, has the given type and content, no drawings and an
   id no block of the list had; the blocks before it are the old list. *)
C28_AddBlockAppends ==
    [][\A type \in BlockTypes :
          AddBlock(type) =>
             LET new == edBlocks'[Len(edBlocks')] IN
             /\ Len(edBlocks') = Len(edBlocks) + 1
             /\ new.type = type
             /\ new.content = (IF type = "text" THEN "" ELSE "img")
             /\ new.drawings = <<>>
             /\ new.id \notin Ids(edBlocks)
             /\ SubSeq(edBlocks', 1, Len(edBlocks)) = edBlocks]_vars

(* C28, witness: a media block was added behind the blocks of a note *)
C28_Witness ==
    /\ view = "edit" /\ obs.last = "addBlock"
    /\ Len(edBlocks) >= 2 /\ edBlocks[Len(edBlocks)].type # "text"
    /\ activeNote # None
    /\ SubSeq(edBlocks, 1, Len(edBlocks) - 1) = activeNote[1].blocks

(* C29: updateBlock(id, content) gives the block with that id the content
   and changes nothing else of it; the list keeps its length and every other
   block. *)
C29_UpdateBlockContentOnly ==
    [][\A id \in AnyId, content \in Contents :
          UpdateBlock(id, content) =>
             /\ Len(edBlocks') = Len(edBlocks)
             /\ \A k \in 1..Len(edBlocks) :
                   IF edBlocks[k].id = id
                   THEN /\ edBlocks'[k].content = content
                        /\ DOMAIN edBlocks'[k] = DOMAIN edBlocks[k]
                        /\ \A f \in DOMAIN edBlocks[k] \ {"content"} :
                              edBlocks'[k][f] = edBlocks[k][f]
                   ELSE edBlocks'[k] = edBlocks[k]]_vars

(* C29, witness: one block of a list of several got new content, another has
   content of its own *)
C29_Witness ==
    /\ view = "edit" /\ obs.last = "updateBlock"
    /\ activeNote # None /\ Len(edBlocks) = Len(activeNote[1].blocks)
    /\ \E k, j \in 1..Len(edBlocks) :
          /\ k # j
          /\ edBlocks[k].content # activeNote[1].blocks[k].content
          /\ edBlocks[j] = activeNote[1].blocks[j]
          /\ edBlocks[j].content # edBlocks[k].content

(* how often a block with the id is in the list *)
Occurrences(blocks, id) == Cardinality({k \in 1..Len(blocks) : blocks[k].id = id})

(* C30: restoreBlock, also after other edits of the list, puts the buffered
   block once at position min(recorded index, length of the list), which
   makes the list one longer and keeps the blocks that were there in their
   order, and empties the buffer; with an empty buffer it changes nothing. *)
C30_RestoreIsTotal ==
    [][RestoreBlock =>
          IF deletedBlock = None
          THEN UNCHANGED <<edVars, appVars>>
          ELSE LET buffered == deletedBlock[1]
                   at == Min(buffered.index, Len(edBlocks))
               IN /\ Len(edBlocks') = Len(edBlocks) + 1
                  /\ edBlocks'[at + 1] = buffered.block
                  /\ SubSeq(edBlocks', 1, at) = SubSeq(edBlocks, 1, at)
                  /\ SubSeq(edBlocks', at + 2, Len(edBlocks'))
                        = SubSeq(edBlocks, at + 1, Len(edBlocks))
                  /\ Occurrences(edBlocks', buffered.block.id)
                        = Occurrences(edBlocks, buffered.block.id) + 1
                  /\ deletedBlock' = None]_vars

(* C30, witness: a block that was not the last one is back after the list
   was edited in between, and the list is not the one before the deletion *)
C30_Witness ==
    /\ view = "edit" /\ obs.last = "restoreBlock"
    /\ obs.del # None /\ obs.del[1].restored /\ obs.del[1].edited
    /\ obs.del[1].index + 1 < Len(edBlocks)
    /\ edBlocks[obs.del[1].index + 1].id = obs.del[1].id
    /\ edBlocks # obs.del[1].before
    /\ deletedBlock = None

(* C31: the hardware back button in the editor leads to the list view with
   no active note and does not exit the app; in the list view it exits the
   app.  The view is always 'home' or 'edit', and in the list view there is
   no active note. *)
C31_BackFollowsView ==
    /\ [](/\ view \in {"home", "edit"}
          /\ view = "home" => activeNote = None)
    /\ [][BackButton =>
             IF view = "edit"
             THEN view' = "home" /\ activeNote' = None /\ exited' = exited
             ELSE exited']_vars

(* C31, witness: the back button closed the editor of a stored note, and the
   app runs on *)
C31_Witness ==
    /\ obs.last = "backButton" /\ view = "home" /\ activeNote = None
    /\ ~exited /\ notes # <<>>

(* the block list as the collection has it for this editor: of the note
   last committed by the session, else of the note the editor was opened
   with, else (a new note of which nothing was committed) no blocks *)
CommittedBlocks ==
    IF obs.saved # None THEN obs.saved[1].blocks
    ELSE IF activeNote # None THEN activeNote[1].blocks ELSE <<>>

(* C32: a change of the block list is followed by an autosave: while the
   list in the editor differs from the committed one a debounce timer is
   pending, and when it fires the note it commits is in the collection with
   the blocks of the editor. *)
C32_ListChangeIsCommitted ==
    /\ []((view = "edit" /\ edBlocks # CommittedBlocks) => saveTimer # NoTimer)
    /\ [][(DebounceFires /\ edBlocks # CommittedBlocks) =>
             /\ obs'.saved # None
             /\ obs'.saved[1].blocks = edBlocks
             /\ \E i \in 1..Len(notes') : notes'[i] = obs'.saved[1]]_vars

(* C33: whatever the order of append, update, delete, undo-delete,
   drag-start, drag-enter, drag-end and move, every element of the block list
   is a block and no two have the same id; a drag-enter and a move leave the
   list with the blocks it had, in some order. *)
C33_ListStaysWellFormed ==
    /\ [](view = "edit" =>
             /\ \A k \in 1..Len(edBlocks) : edBlocks[k] # Undefined
             /\ \A k, j \in 1..Len(edBlocks) :
                   k # j => edBlocks[k].id # edBlocks[j].id)
    /\ [][((\E p \in 0..MaxBlocks : HandleDragEnter(p))
           \/ (\E i \in 0..MaxBlocks, d \in {-1, 1} : MoveBlock(i, d))) =>
             /\ Len(edBlocks') = Len(edBlocks)
             /\ {edBlocks'[k] : k \in 1..Len(edBlocks')}
                   = {edBlocks[k] : k \in 1..Len(edBlocks)}]_vars

(* the collections the previous session left in the stores *)
PreviousSession ==
    {JSONparse(c[1]) : c \in {x \in {AtBoot.ls, AtBoot.fs} : Parsable(x)}}

(* the store held a collection with notes in it *)
HeldNotes(content) == Parsable(content) /\ JSONparse(content[1]) # <<>>

(* no user event has been taken since the launch *)
Untouched == mounted /\ opsLeft = MaxOps - 1

(* C34: from the launch until the first change by the user, a store that
   held notes holds a collection the previous session persisted, and never
   the empty collection the App starts with: local storage and, on the native
   platform, the device file, however the load, the save effect, the file
   read and the file writes interleave. *)
C34_StartupKeepsStores ==
    Untouched =>
       /\ HeldNotes(AtBoot.ls) =>
             (Parsable(lsData) /\ JSONparse(lsData[1]) \in PreviousSession)
       /\ (native /\ HeldNotes(AtBoot.fs)) =>
             (Parsable(fsData) /\ JSONparse(fsData[1]) \in PreviousSession)

(* C35: the editor of an existing note in which no tracked change was made
   calls onSave at no time: no step of it alters the collection, and so the
   note keeps its updatedAt. *)
C35_NoCommitWithoutChange ==
    /\ []((view = "edit" /\ activeNote # None /\ ~obs.everChanged) => obs.saved = None)
    /\ [][(view = "edit" /\ activeNote # None /\ view' = "edit"
           /\ ~obs.everChanged /\ ~obs'.everChanged
           /\ obs'.last # "handleUndoDelete") => notes' = notes]_vars

(* C36: the deletion of the open note leads to the list view and leaves no
   autosave of that editor pending; the note is out of the collection until
   it is undone, and the only step that puts it back is the undo of the
   deletion, less than 5 seconds after it. *)
C36_DeletedNoteStaysDeleted ==
    /\ []((obs.ndel # None /\ LatestNoteDeletion.pending) =>
             /\ obs.last = "handleDeleteNote" =>
                   (view = "home" /\ activeNote = None /\ saveTimer = NoTimer)
             /\ ~LatestNoteDeletion.restored =>
                   LatestNoteDeletion.note.id \notin Ids(notes))
    /\ [][(/\ obs.ndel # None /\ LatestNoteDeletion.pending
           /\ LatestNoteDeletion.note.id \notin Ids(notes)
           /\ LatestNoteDeletion.note.id \in Ids(notes')) =>
             /\ HandleUndoDelete
             /\ now - LatestNoteDeletion.at < NOTE_UNDO_MS
             /\ \E i \in 1..Len(notes') : notes'[i] = LatestNoteDeletion.note]_vars

(* C36, witness: a note was deleted from its editor while a change of it
   awaited the autosave; the debounce period has passed since and the note
   is not in the collection *)
C36_Witness ==
    /\ obs.ndel # None /\ LatestNoteDeletion.pending /\ ~LatestNoteDeletion.restored
    /\ now - LatestNoteDeletion.at >= DEBOUNCE_MS
    /\ view = "home" /\ LatestNoteDeletion.note.id \notin Ids(notes)

(* the step took the collection to what saving the note makes of it: the
   note in the place of the one with its id, or in front when there is none,
   and every other note where it was *)
SavedAs(updatedNote) ==
    IF \E i \in 1..Len(notes) : notes[i].id = updatedNote.id
    THEN /\ Len(notes') = Len(notes)
         /\ \A i \in 1..Len(notes) :
               notes'[i] = (IF notes[i].id = updatedNote.id THEN updatedNote
                            ELSE notes[i])
    ELSE /\ Len(notes') = Len(notes) + 1
         /\ notes'[1] = updatedNote
         /\ \A i \in 1..Len(notes) : notes'[i + 1] = notes[i]

(* C37: handleSaveNote replaces the note with the same id where it is and
   keeps the length, or, when there is none, puts the note in front and makes
   the collection one longer; the other notes and their order stay: for the
   commits of the editor and for the toggles of the list view. *)
C37_SaveIsUpsert ==
    /\ [][(DebounceFires /\ obs'.last = "autosaveCommit") =>
             SavedAs(obs'.saved[1])]_vars
    /\ [][\A i \in 1..Len(notes) :
             /\ HandleTogglePinNote(i) =>
                   SavedAs([notes[i] EXCEPT !.isPinned = ~notes[i].isPinned])
             /\ HandleToggleHideNote(i) =>
                   SavedAs([notes[i] EXCEPT !.isHidden = ~notes[i].isHidden])]_vars

(* C37, witness: the editor's commit replaced the second note of the
   collection where it was, after an earlier commit had put a new note in
   front *)
C37_Witness ==
    /\ obs.last = "autosaveCommit" /\ obs.saved # None
    /\ Len(notes) >= 3 /\ notes[1].id >= FirstFreshId
    /\ \E i \in 2..Len(notes) : notes[i] = obs.saved[1]

(* the note with the flag flipped and everything else as it was; a note
   stored without isHidden counts as not hidden *)
Flipped(before, after, flag) ==
    /\ after[flag] = ~(flag \in DOMAIN before /\ before[flag])
    /\ DOMAIN after = DOMAIN before \cup {flag}
    /\ \A k \in DOMAIN before \ {flag} : after[k] = before[k]

(* one toggle from the list view: the note at its place with the one flag
   flipped, the other notes as they were *)
ToggleFlipsOneFlag ==
    [][\A i \in 1..Len(notes) :
          /\ HandleTogglePinNote(i) =>
                /\ Len(notes') = Len(notes)
                /\ Flipped(notes[i], notes'[i], "isPinned")
                /\ \A j \in 1..Len(notes) : j # i => notes'[j] = notes[j]
          /\ HandleToggleHideNote(i) =>
                /\ Len(notes') = Len(notes)
                /\ Flipped(notes[i], notes'[i], "isHidden")
                /\ \A j \in 1..Len(notes) : j # i => notes'[j] = notes[j]]_vars

(* the collection after the note at i was toggled twice from the list view *)
PinnedTwice(i) ==
    LET once == Upsert(notes, togglePin(notes[i]))
    IN Upsert(once, togglePin(once[i]))

HiddenTwice(i) ==
    LET once == Upsert(notes, toggleHide(notes[i]))
    IN Upsert(once, toggleHide(once[i]))

(* the note with its isHidden written out *)
WithHiddenFlag(note) ==
    [k \in DOMAIN note \cup {"isHidden"} |->
        IF k = "isHidden" THEN IsHidden(note) ELSE note[k]]

(* C38, as claimed: a toggle of pin or hide from the list view flips that
   flag of that note and nothing else of the collection, and the same toggle
   twice gives the collection back as it was. *)
C38_ToggleIsInvolution ==
    /\ ToggleFlipsOneFlag
    /\ [](mounted => \A i \in 1..Len(notes) :
                        PinnedTwice(i) = notes /\ HiddenTwice(i) = notes)

(* C38, amended: the same, except that after two toggles of hide a note that
   was stored without the isHidden flag has it, set to false. *)
C38_ToggleIsInvolutionUpToFlag ==
    /\ ToggleFlipsOneFlag
    /\ [](mounted => \A i \in 1..Len(notes) :
                        /\ PinnedTwice(i) = notes
                        /\ HiddenTwice(i) = [notes EXCEPT ![i] = WithHiddenFlag(notes[i])]
                        /\ "isHidden" \in DOMAIN notes[i] => HiddenTwice(i) = notes)

(* C38, witness: a note stored without the isHidden flag has been hidden and
   unhidden from the list view, and has the flag now *)
C38_Witness ==
    /\ obs.last = "handleToggleHideNote"
    /\ \E i \in 1..Len(notes) :
          /\ notes[i].id = HomeOld.id /\ "isHidden" \in DOMAIN notes[i]
          /\ ~notes[i].isHidden /\ notes[i] # HomeOld
          /\ \A k \in DOMAIN HomeOld : notes[i][k] = HomeOld[k]

(* C39: the drawing-session canvas and the read-only overlay draw a path
   list alike: every path has the same line width in both (eraser and pen),
   and the two surfaces are equal, for the list of an open session and for
   the list Save stores in the block. *)
C39_RenderersAgree ==
    /\ [](InEditor =>
            /\ \A id \in DOMAIN canvases :
                  /\ \A k \in 1..Len(canvases[id].paths) :
                        lineWidth(canvases[id].paths[k], 4) = lineWidth(canvases[id].paths[k], 2)
                  /\ renderCanvas(canvases[id].paths) = renderDrawings(canvases[id].paths)
            /\ \A k \in MediaBlocksShown :
                  renderDrawings(edBlocks[k].drawings) = renderCanvas(edBlocks[k].drawings))
    /\ [][\A id \in DOMAIN canvases :
             HandleSave(id) =>
                renderDrawings(BlockWithId(edBlocks', id).drawings)
                    = renderCanvas(canvases[id].paths)]_vars

(* C40: a press released before 500 ms has not toggled the pin and its click
   opens the note; a press held for 500 ms or more has toggled the pin once,
   and neither its release nor its click opens the note. *)
C40_OnePressOneOutcome ==
    /\ [][EndPress =>
            /\ view' = "home"
            /\ press[1].toggled =
                  (IF now - press[1].start >= LONG_PRESS_MS THEN 1 ELSE 0)]_vars
    /\ [][OnClick =>
            IF press[1].toggled = 0
            THEN /\ view' = "edit" /\ activeNote' # None
                 /\ activeNote'[1] = press[1].note
                 /\ notes' = notes
            ELSE view' = "home" /\ activeNote' = activeNote]_vars

====
